---------------------------- MODULE Spec2Model ----------------------------
(***************************************************************************)
(* Trade execution and signal-scheduling engine of the bot:                *)
(*   utilities.run_trade            the martingale loop of one signal      *)
(*   telegram_bot.process_signals_task  the batch scheduler                *)
(*   telegram_bot.USER_CONFIG       mode / collective multiplier           *)
(* Amounts and profits are whole currency units, the clock is in seconds.  *)
(***************************************************************************)
EXTENDS Integers, Sequences, FiniteSets, TLC

(***************************************************************************)
(* Bounds of the model.                                                    *)
(***************************************************************************)
MaxGales == 2
MaxRuns == 2
MaxSignals == 2
MaxClock == 640

(* base amounts accepted by set_amount (>= 1) *)
Amounts == {1, 3}

(***************************************************************************)
(* Program constants.                                                      *)
(***************************************************************************)
DEFAULT_AMOUNT == 1
DEFAULT_MAX_GALES == 2
MARTINGALE_MULTIPLIER == 2

VARIABLES
    now,            \* wall clock, seconds
    USER_CONFIG,    \* telegram_bot.USER_CONFIG
    task,           \* locals and position of process_signals_task
    runs,           \* one run_trade invocation per fired signal
    sent,           \* messages handed to bot.send_message since the current
                    \* loop iteration began (before the first: since the start)
    ACTIVE_TRADES,  \* telegram_bot.ACTIVE_TRADES
    message_handler,\* the tables trade.py shares with the message handler
    calls,          \* the TradeManager / TradeOutcomeChecker calls in flight
    transport,      \* messages handed to ws_manager.send_message
    config,         \* settings.config
    monitor,        \* the ChannelMonitor._execute_signal calls in flight
    tasks           \* the process_signals_task coroutines running side by
                    \* side, reduced to their use of collective_multiplier

botvars == <<USER_CONFIG, task, runs, sent, ACTIVE_TRADES>>

tradevars == <<message_handler, calls, transport>>

monitorvars == <<config, monitor, tasks>>

vars == <<now, botvars, tradevars, monitorvars>>

(***************************************************************************)
(* utilities.run_trade                                                     *)
(***************************************************************************)

(* what api.execute_options_trade can answer *)
PlacementResults == {"ok", "rejected", "confirm_timeout", "raise"}

(* the two ways api.execute_options_trade reports (False, reason) *)
PlaceFailureKinds == {"rejected", "confirm_timeout"}

(* what one attempt ended with, and the pl_amount the venue reported *)
Event(kind, pl) == [kind |-> kind, pl |-> pl]

(* what api.get_trade_outcome can answer for a stake: a closed trade with   *)
(* its pl_amount, or no outcome within the wait                            *)
OutcomeResults(stake) ==
    {[closed |-> TRUE, pl_amount |-> p] : p \in {0 - stake, 0, stake}}
        \cup {[closed |-> FALSE, pl_amount |-> 0]}

NoResult ==
    [success |-> FALSE, has_pnl |-> FALSE, pnl |-> 0, gale |-> 0 - 1,
     message |-> "none", reason |-> "none"]

(* state of run_trade right after current_amount = amount (line 265) *)
InitRun(amount, max_gales) ==
    [amount |-> amount, max_gales |-> max_gales, pc |-> "place", gale |-> 0,
     current_amount |-> amount, stakes |-> <<>>, last |-> Event("none", 0),
     result |-> NoResult]

(* lines 281-283: the placement was refused or not confirmed *)
PlaceFailedResult(reason) ==
    [success |-> FALSE, has_pnl |-> FALSE, pnl |-> 0, gale |-> 0 - 1,
     message |-> "Failed to place trade", reason |-> reason]

(* lines 323-325: an exception inside the loop *)
ErrorResult ==
    [success |-> FALSE, has_pnl |-> FALSE, pnl |-> 0, gale |-> 0 - 1,
     message |-> "Error", reason |-> "exception"]

(* variant: the gale of a win counted from 1 *)
WinResult_OneBased(pnl, gale) ==
    [success |-> TRUE, has_pnl |-> TRUE, pnl |-> pnl, gale |-> gale + 1,
     message |-> IF gale = 0 THEN "WIN" ELSE "WIN after Gale",
     reason |-> "none"]

(* lines 298-313 *)
WinResult(pnl, gale) ==
    [success |-> TRUE, has_pnl |-> TRUE, pnl |-> pnl, gale |-> gale,
     message |-> IF gale = 0 THEN "WIN" ELSE "WIN after Gale",
     reason |-> "none"]

(* lines 327-333 *)
ExhaustedResult(amount, max_gales) ==
    [success |-> FALSE, has_pnl |-> TRUE, pnl |-> 0 - amount,
     gale |-> max_gales, message |-> "LOSS", reason |-> "none"]

(* variant: the stake tripled after a loss *)
NextStake_Triple(current_amount) == current_amount * 3

(* lines 318 and 321: current_amount *= 2 *)
NextStake(current_amount) == current_amount * 2

(* variant: the loop runs one gale past max_gales *)
NextGale_OneMore(r, event) ==
    LET r1 == [r EXCEPT !.current_amount = NextStake(r.current_amount),
                        !.last = event]
    IN  IF r.gale + 1 <= r.max_gales + 1
        THEN [r1 EXCEPT !.gale = r.gale + 1, !.pc = "place"]
        ELSE [r1 EXCEPT !.pc = "done",
                        !.result = ExhaustedResult(r.amount, r.max_gales)]

(* the for loop moves to the next gale, or falls out of range(max_gales+1) *)
NextGale(r, event) ==
    LET r1 == [r EXCEPT !.current_amount = NextStake(r.current_amount),
                        !.last = event]
    IN  IF r.gale + 1 <= r.max_gales
        THEN [r1 EXCEPT !.gale = r.gale + 1, !.pc = "place"]
        ELSE [r1 EXCEPT !.pc = "done",
                        !.result = ExhaustedResult(r.amount, r.max_gales)]

(* variant: a refused placement counted as a lost attempt *)
AfterPlace_Retry(r, p) ==
    LET r1 == [r EXCEPT !.stakes = Append(r.stakes, r.current_amount)]
    IN  CASE p = "ok" -> [r1 EXCEPT !.pc = "outcome"]
          [] p = "raise" ->
                [r1 EXCEPT !.pc = "done", !.result = ErrorResult,
                           !.last = Event("raise", 0)]
          [] OTHER -> NextGale(r1, Event(p, 0))

(* lines 269-283: one call of api.execute_options_trade *)
AfterPlace(r, p) ==
    LET r1 == [r EXCEPT !.stakes = Append(r.stakes, r.current_amount)]
    IN  CASE p = "ok" -> [r1 EXCEPT !.pc = "outcome"]
          [] p = "raise" ->
                [r1 EXCEPT !.pc = "done", !.result = ErrorResult,
                           !.last = Event("raise", 0)]
          [] OTHER ->
                [r1 EXCEPT !.pc = "done", !.result = PlaceFailedResult(p),
                           !.last = Event(p, 0)]

(* variant: an outcome wait that timed out ends the run *)
AfterOutcome_TimeoutStops(r, o) ==
    IF o.closed
    THEN IF o.pl_amount > 0
         THEN [r EXCEPT !.pc = "done",
                        !.result = WinResult(o.pl_amount, r.gale),
                        !.last = Event("win", o.pl_amount)]
         ELSE NextGale(r, Event(IF o.pl_amount = 0 THEN "breakeven" ELSE "loss",
                                 o.pl_amount))
    ELSE [r EXCEPT !.pc = "done",
                   !.result = [ErrorResult EXCEPT !.reason = "outcome_timeout"],
                   !.last = Event("outcome_timeout", 0)]

(* variant: a closed trade with pl_amount = 0 ends the run without a loss *)
AfterOutcome_BreakevenStops(r, o) ==
    IF o.closed
    THEN IF o.pl_amount > 0
         THEN [r EXCEPT !.pc = "done",
                        !.result = WinResult(o.pl_amount, r.gale),
                        !.last = Event("win", o.pl_amount)]
         ELSE IF o.pl_amount = 0
         THEN [r EXCEPT !.pc = "done",
                        !.result = [WinResult(0, r.gale) EXCEPT
                                       !.success = FALSE,
                                       !.message = "BREAKEVEN"],
                        !.last = Event("breakeven", 0)]
         ELSE NextGale(r, Event("loss", o.pl_amount))
    ELSE NextGale(r, Event("outcome_timeout", 0))

(* lines 291-321: one call of api.get_trade_outcome *)
AfterOutcome(r, o) ==
    IF o.closed
    THEN IF o.pl_amount > 0
         THEN [r EXCEPT !.pc = "done",
                        !.result = WinResult(o.pl_amount, r.gale),
                        !.last = Event("win", o.pl_amount)]
         ELSE NextGale(r, Event(IF o.pl_amount = 0 THEN "breakeven" ELSE "loss",
                                 o.pl_amount))
    ELSE NextGale(r, Event("outcome_timeout", 0))

(* every state run_trade can be in after one more api call *)
RunSteps(r) ==
    CASE r.pc = "place" -> {AfterPlace(r, p) : p \in PlacementResults}
      [] r.pc = "outcome" ->
            {AfterOutcome(r, o) : o \in OutcomeResults(r.current_amount)}
      [] OTHER -> {}

(* every value run_trade can return when started in state r *)
RECURSIVE RunResults(_)
RunResults(r) ==
    IF r.pc = "done" THEN {r.result}
    ELSE UNION {RunResults(s) : s \in RunSteps(r)}

(***************************************************************************)
(* telegram_bot.USER_CONFIG and process_signals_task                       *)
(***************************************************************************)

(* scheduled instants of the signals of one message, relative to the clock *)
(* value 0 at which the message arrives                                    *)
SigTimes == {0 - 61, 0 - 60, 20}

(* how late a sleep wakes up *)
Delays == {0, 1}

(* seconds from firing a bucket until asyncio.gather returns *)
BucketDurations == {1, 310, 311}

Modes == {"INDIVIDUAL", "COLLECTIVE"}

(* lines 636-643: the ingestion filter *)
INGEST_STALE_SECS == 60

(* line 662: the verification point lies 10 s before the scheduled instant *)
VERIFY_LEAD_SECS == 10

(* line 674 *)
BUCKET_STALE_SECS == 300

(* settings.py lines 33-42: the TradingConfig object, of which the channel  *)
(* monitor reads paused                                                    *)
TradingConfig == [paused |-> FALSE]

IdleConfig ==
    [amount |-> DEFAULT_AMOUNT, max_gales |-> DEFAULT_MAX_GALES,
     mode |-> "INDIVIDUAL", collective_multiplier |-> 1, ta_filter |-> FALSE]

(* trade.py lines 56, 124, 190: pending_digital_orders, position_info and   *)
(* recent_binary_opens of the message handler, all empty                    *)
IdleHandler ==
    [pending_digital_orders |-> <<>>, recent_binary_opens |-> <<>>,
     position_info |-> <<>>]

(* process_signals_task before it is created: every local still unset *)
IdleTask ==
    [pc |-> "none", signals |-> <<>>, current_time |-> 0,
     valid_signals |-> <<>>, grouped |-> <<>>, keys |-> <<>>, ki |-> 0,
     delay |-> 0, vi |-> 0, verified_signals |-> <<>>,
     current_amount |-> 0, current_gales |-> 0, multiplier_read |-> 0,
     fired_at |-> 0, mode_at_fire |-> "none", results |-> <<>>,
     batch_win |-> FALSE,
     checked |-> {}, unavailable |-> {}, placed |-> {},
     stale_dropped |-> {}]

Msg(kind, a, b, c) == [kind |-> kind, a |-> a, b |-> b, c |-> c]

(* variant: equal times are inserted in front of each other *)
RECURSIVE InsertByTime_Unstable(_, _)
InsertByTime_Unstable(sorted, s) ==
    IF sorted = <<>> THEN <<s>>
    ELSE IF sorted[Len(sorted)].time < s.time THEN Append(sorted, s)
    ELSE Append(InsertByTime_Unstable(SubSeq(sorted, 1, Len(sorted) - 1), s),
                sorted[Len(sorted)])

(* list.sort(key=time) is stable: an element goes behind every element     *)
(* whose time is not greater                                               *)
RECURSIVE InsertByTime(_, _)
InsertByTime(sorted, s) ==
    IF sorted = <<>> THEN <<s>>
    ELSE IF sorted[Len(sorted)].time <= s.time THEN Append(sorted, s)
    ELSE Append(InsertByTime(SubSeq(sorted, 1, Len(sorted) - 1), s),
                sorted[Len(sorted)])

(* line 618: signals.sort(key=lambda x: x['time']) *)
RECURSIVE SortByTime(_)
SortByTime(seq) ==
    IF seq = <<>> THEN <<>>
    ELSE InsertByTime(SortByTime(SubSeq(seq, 1, Len(seq) - 1)), seq[Len(seq)])

(* line 643: delay < -60 *)
IsStaleAtIngestion_Inclusive(delay) == delay <= 0 - INGEST_STALE_SECS

IsStaleAtIngestion(delay) == delay < 0 - INGEST_STALE_SECS

(* lines 638-646 *)
ValidSignals(signals, current_time) ==
    SelectSeq(signals, LAMBDA s : ~IsStaleAtIngestion(s.time - current_time))

(* lines 652-654: grouped[sig["time"]].append(sig) *)
Group(valid) ==
    [t \in {valid[i].time : i \in DOMAIN valid} |->
        SelectSeq(valid, LAMBDA s : s.time = t)]

(* line 656: sorted(grouped.keys()) *)
RECURSIVE SortedKeys(_)
SortedKeys(S) ==
    IF S = {} THEN <<>>
    ELSE LET m == CHOOSE x \in S : \A y \in S : x <= y
         IN  <<m>> \o SortedKeys(S \ {m})

(* lines 662-663: seconds until the verification point *)
VerifyDelay(sched_time, t) == (sched_time - VERIFY_LEAD_SECS) - t

(* variant: the bucket is stale once its scheduled instant is 300 s old *)
IsStaleBucket_FromInstant(delay) ==
    delay + VERIFY_LEAD_SECS < 0 - BUCKET_STALE_SECS

(* variant: a bucket exactly 300 s past its verification point is stale *)
IsStaleBucket_Inclusive(delay) == delay <= 0 - BUCKET_STALE_SECS

(* line 674: elif delay < -300 *)
IsStaleBucket(delay) == delay < 0 - BUCKET_STALE_SECS

(* variant: the time to the verification point used once more *)
FinalDelay_Lead(sched_time, t) == (sched_time - VERIFY_LEAD_SECS) - t

(* lines 725-726: seconds until the exact scheduled instant *)
FinalDelay(sched_time, t) == sched_time - t

(* line 759: any(res > 0 for res in results).  Every res is the dict that   *)
(* run_trade returned, and dict > int raises TypeError on the first one.    *)
AnyResPositive(results) ==
    IF results = <<>> THEN "False" ELSE "TypeError"

(* lines 789-804: generate_batch_summary *)
RECURSIVE SumPnl(_)
SumPnl(results) ==
    IF results = <<>> THEN 0
    ELSE SumPnl(SubSeq(results, 1, Len(results) - 1))
            + results[Len(results)].pnl

(* variant: every result counted as a win *)
Wins_All(results) == Len(results)

Wins(results) == Cardinality({k \in DOMAIN results : results[k].success})

Losses(results) == Len(results) - Wins(results)

generate_batch_summary(results) ==
    Msg("Batch Summary", Len(results), Wins(results), SumPnl(results))
        @@ [losses |-> Losses(results)]

sched_time == task.keys[task.ki]

batch_signals == task.grouped[sched_time]

(* handle_message lines 518-527 and process_signals_task lines 614-634:    *)
(* the task is created for the parsed signals, sorts them and sends the     *)
(* head message                                                            *)
StartTask ==
    /\ task.pc = "none"
    /\ \E n \in 1..MaxSignals : \E f \in [1..n -> SigTimes] :
          LET input == [i \in 1..n |-> [id |-> i, time |-> now + f[i]]]
          IN  /\ task' = [task EXCEPT !.pc = "ingest",
                                      !.signals = SortByTime(input)]
              /\ sent' = <<Msg("Signals Received", n, 0, 0)>>
    /\ UNCHANGED <<now, USER_CONFIG, runs, ACTIVE_TRADES, tradevars, monitorvars>>

(* lines 636-654: the stale pre-filter and the grouping *)
Ingest ==
    /\ task.pc = "ingest"
    /\ LET valid == ValidSignals(task.signals, now)
           ndrop == Len(task.signals) - Len(valid)
       IN  /\ task' = [task EXCEPT !.pc = "loop", !.current_time = now,
                                   !.valid_signals = valid,
                                   !.grouped = Group(valid),
                                   !.keys = SortedKeys(DOMAIN Group(valid)),
                                   !.ki = 1]
           /\ sent' = IF Len(valid) < Len(task.signals)
                      THEN Append(sent, Msg("Dropped stale signals", ndrop, 0, 0))
                      ELSE sent
    /\ UNCHANGED <<now, USER_CONFIG, runs, ACTIVE_TRADES, tradevars, monitorvars>>

(* lines 656-678: the head of one loop iteration, or the end of the loop *)
LoopHead ==
    /\ task.pc = "loop"
    /\ IF task.ki > Len(task.keys)
       THEN /\ task' = [task EXCEPT !.pc = "done"]
            /\ sent' = <<>>
       ELSE LET delay == VerifyDelay(sched_time, now)
            IN  IF delay > 0
                THEN /\ task' = [task EXCEPT !.pc = "sleep_verify", !.delay = delay]
                     /\ sent' = IF delay > 300
                                THEN <<Msg("Waiting", delay, sched_time, 0)>>
                                ELSE <<>>
                ELSE IF IsStaleBucket(delay)
                THEN /\ task' = [task EXCEPT !.ki = task.ki + 1,
                                     !.stale_dropped = @ \cup {sched_time}]
                     /\ sent' = <<Msg("STALE", sched_time, 0 - delay, 0)>>
                ELSE /\ task' = [task EXCEPT !.pc = "verify", !.vi = 1,
                                             !.verified_signals = <<>>]
                     /\ sent' = <<>>
    /\ UNCHANGED <<now, USER_CONFIG, runs, ACTIVE_TRADES, tradevars, monitorvars>>

(* line 673: asyncio.sleep(delay) returns, not before delay has passed *)
WakeVerify ==
    /\ task.pc = "sleep_verify"
    /\ \E d \in Delays :
          /\ now + task.delay + d <= MaxClock
          /\ now' = now + task.delay + d
    /\ task' = [task EXCEPT !.pc = "verify", !.delay = 0, !.vi = 1,
                             !.verified_signals = <<>>]
    /\ UNCHANGED <<USER_CONFIG, runs, sent, ACTIVE_TRADES, tradevars, monitorvars>>

(* lines 694-713: a signal is appended to verified_signals when            *)
(* check_asset_availability returned an option type and, with the TA        *)
(* filter on, check_technical_indicators accepted it                        *)
IsVerified_IgnoreAvailability(available, ta_filter, is_safe) ==
    ta_filter => is_safe

IsVerified(available, ta_filter, is_safe) ==
    available /\ (ta_filter => is_safe)

(* lines 685-730: one signal of the bucket is re-checked; after the last    *)
(* one the bucket is skipped, fired at once, or put to sleep until the      *)
(* scheduled instant. The checks run in worker threads (asyncio.to_thread)  *)
(* and answer d seconds later; line 723 reads the clock after them          *)
VerifyOneIn(d) ==
    /\ task.pc = "verify"
    /\ now + d <= MaxClock
    /\ now' = now + d
    /\ \E available \in BOOLEAN, is_safe \in BOOLEAN :
        LET sig == batch_signals[task.vi]
            keep == IsVerified(available, USER_CONFIG.ta_filter, is_safe)
            verified == IF keep THEN Append(task.verified_signals, sig)
                        ELSE task.verified_signals
            last_one == task.vi = Len(batch_signals)
            t1 == [task EXCEPT !.vi = task.vi + 1,
                               !.verified_signals = verified,
                               !.checked = task.checked \cup {sig.id},
                               !.unavailable =
                                   IF available THEN task.unavailable
                                   ELSE task.unavailable \cup {sig.id}]
        IN  /\ sent' = IF keep THEN sent
                       ELSE IF available
                       THEN Append(sent, Msg("TA Filter SKIP", sig.id, 0, 0))
                       ELSE Append(sent, Msg("SKIP unavailable", sig.id, sched_time, 0))
            /\ task' = IF ~last_one THEN t1
                       ELSE IF verified = <<>>
                       THEN [t1 EXCEPT !.pc = "loop", !.ki = task.ki + 1,
                                       !.delay = 0, !.vi = 0]
                       ELSE IF FinalDelay(sched_time, now') > 0
                       THEN [t1 EXCEPT !.pc = "sleep_fire",
                                       !.delay = FinalDelay(sched_time, now')]
                       ELSE [t1 EXCEPT !.pc = "fire", !.delay = 0]
    /\ UNCHANGED <<USER_CONFIG, runs, ACTIVE_TRADES, tradevars, monitorvars>>

(* the checks of one signal answered within the same clock reading *)
VerifyOne == VerifyOneIn(0)

(* line 730: asyncio.sleep(final_delay) returns *)
WakeFire ==
    /\ task.pc = "sleep_fire"
    /\ \E d \in Delays :
          /\ now + task.delay + d <= MaxClock
          /\ now' = now + task.delay + d
    /\ task' = [task EXCEPT !.pc = "fire", !.delay = 0]
    /\ UNCHANGED <<USER_CONFIG, runs, sent, ACTIVE_TRADES, tradevars, monitorvars>>

(* variant: the bucket is fired with the base amount *)
Fire_BaseAmount ==
    /\ task.pc = "fire"
    /\ LET amount == USER_CONFIG.amount
           n == Len(task.verified_signals)
       IN  /\ task' = [task EXCEPT !.pc = "gather",
                          !.current_amount = amount,
                          !.current_gales = USER_CONFIG.max_gales,
                          !.multiplier_read = USER_CONFIG.collective_multiplier,
                          !.fired_at = now,
                          !.mode_at_fire = USER_CONFIG.mode,
                          !.placed = task.placed \cup
                              {task.verified_signals[k].id : k \in 1..n}]
           /\ sent' = Append(sent, Msg("Executing", n, 0, 0))
           /\ runs' = [k \in 1..n |-> InitRun(amount, USER_CONFIG.max_gales)]
           /\ ACTIVE_TRADES' = ACTIVE_TRADES \o
                  [k \in 1..n |-> task.verified_signals[k].id]
    /\ UNCHANGED <<now, USER_CONFIG, tradevars, monitorvars>>

(* lines 732-754 and 567-589: the stake is read, the bucket is announced    *)
(* and one execute_trade_wrapper per verified signal is started             *)
Fire ==
    /\ task.pc = "fire"
    /\ LET amount == USER_CONFIG.amount * USER_CONFIG.collective_multiplier
           n == Len(task.verified_signals)
       IN  /\ task' = [task EXCEPT !.pc = "gather",
                          !.current_amount = amount,
                          !.current_gales = USER_CONFIG.max_gales,
                          !.multiplier_read = USER_CONFIG.collective_multiplier,
                          !.fired_at = now,
                          !.mode_at_fire = USER_CONFIG.mode,
                          !.placed = task.placed \cup
                              {task.verified_signals[k].id : k \in 1..n}]
           /\ sent' = Append(sent, Msg("Executing", n, 0, 0))
           /\ runs' = [k \in 1..n |-> InitRun(amount, USER_CONFIG.max_gales)]
           /\ ACTIVE_TRADES' = ACTIVE_TRADES \o
                  [k \in 1..n |-> task.verified_signals[k].id]
    /\ UNCHANGED <<now, USER_CONFIG, tradevars, monitorvars>>

(* lines 580-608: run_trade returns in its thread and the wrapper drops     *)
(* its entry; the steps in between are those of SpecRun                     *)
RunTradeReturns(k) ==
    /\ task.pc = "gather"
    /\ runs[k].pc # "done"
    /\ \E res \in RunResults(runs[k]) :
          runs' = [runs EXCEPT ![k] = [runs[k] EXCEPT !.pc = "done", !.result = res]]
    /\ ACTIVE_TRADES' = SelectSeq(ACTIVE_TRADES,
                            LAMBDA id : id # task.verified_signals[k].id)
    /\ UNCHANGED <<now, USER_CONFIG, task, sent, tradevars, monitorvars>>

(* variant: the wait ends with the first execution that returns *)
Join_FirstDone ==
    /\ task.pc = "gather"
    /\ \E k \in DOMAIN runs : runs[k].pc = "done"
    /\ \E d \in BucketDurations :
          /\ now + d <= MaxClock
          /\ now' = now + d
    /\ LET results == [k \in DOMAIN runs |-> runs[k].result]
       IN  /\ task' = [task EXCEPT !.pc = "report", !.results = results]
           /\ UNCHANGED USER_CONFIG
    /\ UNCHANGED <<runs, sent, ACTIVE_TRADES, tradevars, monitorvars>>

(* lines 744-764: asyncio.gather returns the results; in COLLECTIVE mode    *)
(* the first multiplier update is evaluated                                 *)
Join ==
    /\ task.pc = "gather"
    /\ \A k \in DOMAIN runs : runs[k].pc = "done"
    /\ \E d \in BucketDurations :
          /\ now + d <= MaxClock
          /\ now' = now + d
    /\ LET results == [k \in DOMAIN runs |-> runs[k].result]
       IN  IF USER_CONFIG.mode = "COLLECTIVE"
           THEN CASE AnyResPositive(results) = "TypeError" ->
                        /\ task' = [task EXCEPT !.pc = "crashed", !.results = results]
                        /\ UNCHANGED USER_CONFIG
                  [] AnyResPositive(results) = "True" ->
                        /\ task' = [task EXCEPT !.pc = "report", !.results = results]
                        /\ USER_CONFIG' =
                              [USER_CONFIG EXCEPT !.collective_multiplier = 1]
                  [] OTHER ->
                        /\ task' = [task EXCEPT !.pc = "report", !.results = results]
                        /\ USER_CONFIG' =
                              [USER_CONFIG EXCEPT !.collective_multiplier = @ * 2]
           ELSE /\ task' = [task EXCEPT !.pc = "report", !.results = results]
                /\ UNCHANGED USER_CONFIG
    /\ runs' = <<>>
    /\ UNCHANGED <<sent, ACTIVE_TRADES, tradevars, monitorvars>>

(* lines 766-776: one message per result, then the batch summary *)
Report ==
    /\ task.pc = "report"
    /\ sent' = sent
          \o [k \in DOMAIN task.results |->
                Msg(task.results[k].message, task.verified_signals[k].id,
                    task.results[k].pnl, task.results[k].gale)]
          \o <<generate_batch_summary(task.results)>>
    /\ task' = [task EXCEPT !.pc = "update",
                   !.batch_win = \E k \in DOMAIN task.results :
                                    task.results[k].success]
    /\ UNCHANGED <<now, USER_CONFIG, runs, ACTIVE_TRADES, tradevars, monitorvars>>

(* lines 778-786: the second multiplier update, then the next bucket *)
CollectiveUpdate ==
    /\ task.pc = "update"
    /\ IF USER_CONFIG.mode = "COLLECTIVE"
       THEN IF task.batch_win
            THEN /\ USER_CONFIG' = [USER_CONFIG EXCEPT !.collective_multiplier = 1]
                 /\ sent' = Append(sent, Msg("Collective Martingale reset", 1, 0, 0))
            ELSE /\ USER_CONFIG' =
                       [USER_CONFIG EXCEPT !.collective_multiplier = @ * 2]
                 /\ sent' = Append(sent, Msg("Collective Martingale INCREASED",
                                   USER_CONFIG.collective_multiplier * 2, 0, 0))
       ELSE UNCHANGED <<USER_CONFIG, sent>>
    /\ task' = [task EXCEPT !.pc = "loop", !.ki = task.ki + 1, !.vi = 0,
                             !.verified_signals = <<>>, !.results = <<>>,
                             !.batch_win = FALSE, !.fired_at = 0,
                             !.mode_at_fire = "none"]
    /\ UNCHANGED <<now, runs, ACTIVE_TRADES, tradevars, monitorvars>>

(* set_mode (lines 192-203) and the Gale Mode button (lines 377-390) *)
SetMode_KeepMultiplier(mode) ==
    /\ USER_CONFIG' = [USER_CONFIG EXCEPT !.mode = mode]
    /\ UNCHANGED <<now, task, runs, sent, ACTIVE_TRADES, tradevars, monitorvars>>

SetMode_ResetWhenIdle(mode) ==
    /\ USER_CONFIG' =
          [USER_CONFIG EXCEPT !.mode = mode,
              !.collective_multiplier = IF task.pc = "gather" THEN @ ELSE 1]
    /\ UNCHANGED <<now, task, runs, sent, ACTIVE_TRADES, tradevars, monitorvars>>

SetMode(mode) ==
    /\ USER_CONFIG' = [USER_CONFIG EXCEPT !.mode = mode,
                                          !.collective_multiplier = 1]
    /\ UNCHANGED <<now, task, runs, sent, ACTIVE_TRADES, tradevars, monitorvars>>

(* set_amount (lines 160-179) *)
SetAmount(amount) ==
    /\ task.pc = "none"
    /\ amount >= 1
    /\ USER_CONFIG' = [USER_CONFIG EXCEPT !.amount = amount]
    /\ UNCHANGED <<now, task, runs, sent, ACTIVE_TRADES, tradevars, monitorvars>>

(* set_gale (lines 181-190) *)
SetGale(gale) ==
    /\ task.pc = "none"
    /\ gale >= 0
    /\ USER_CONFIG' = [USER_CONFIG EXCEPT !.max_gales = gale]
    /\ UNCHANGED <<now, task, runs, sent, ACTIVE_TRADES, tradevars, monitorvars>>

(* the TA Filter button (lines 391-402) *)
ToggleTAFilter ==
    /\ task.pc = "none"
    /\ USER_CONFIG' = [USER_CONFIG EXCEPT !.ta_filter = ~@]
    /\ UNCHANGED <<now, task, runs, sent, ACTIVE_TRADES, tradevars, monitorvars>>

Init ==
    /\ now = 0
    /\ USER_CONFIG = IdleConfig
    /\ task = IdleTask
    /\ runs = <<>>
    /\ sent = <<>>
    /\ ACTIVE_TRADES = <<>>
    /\ message_handler = IdleHandler
    /\ config = TradingConfig
    /\ monitor = <<>>
    /\ tasks = <<>>
    /\ calls = <<>>
    /\ transport = <<>>

Next ==
    \/ StartTask
    \/ Ingest
    \/ LoopHead
    \/ WakeVerify
    \/ VerifyOne
    \/ WakeFire
    \/ Fire
    \/ \E k \in DOMAIN runs : RunTradeReturns(k)
    \/ Join
    \/ Report
    \/ CollectiveUpdate
    \/ \E mode \in Modes : SetMode(mode)
    \/ \E amount \in Amounts : SetAmount(amount)
    \/ \E gale \in 0..MaxGales : SetGale(gale)
    \/ ToggleTAFilter

Spec == Init /\ [][Next]_vars

(***************************************************************************)
(* process_signals_task on its own: the settings were chosen before the    *)
(* signals are handed over and no command arrives while the task runs.     *)
(* The event loop resumes the task whenever it can take a step: a sleep    *)
(* returns, a check answers, every run_trade returns (see SpecRunFair).    *)
(***************************************************************************)
InitTask ==
    /\ now = 0
    /\ \E mode \in Modes, ta_filter \in BOOLEAN :
          USER_CONFIG = [IdleConfig EXCEPT !.mode = mode,
                                           !.ta_filter = ta_filter]
    /\ task = IdleTask
    /\ runs = <<>>
    /\ sent = <<>>
    /\ ACTIVE_TRADES = <<>>
    /\ message_handler = IdleHandler
    /\ config = TradingConfig
    /\ monitor = <<>>
    /\ tasks = <<>>
    /\ calls = <<>>
    /\ transport = <<>>

TaskStep ==
    \/ Ingest
    \/ LoopHead
    \/ WakeVerify
    \/ VerifyOne
    \/ WakeFire
    \/ Fire
    \/ \E k \in DOMAIN runs : RunTradeReturns(k)
    \/ Join
    \/ Report
    \/ CollectiveUpdate

NextTask ==
    \/ StartTask
    \/ Ingest
    \/ LoopHead
    \/ WakeVerify
    \/ VerifyOne
    \/ WakeFire
    \/ Fire
    \/ \E k \in DOMAIN runs : RunTradeReturns(k)
    \/ Join
    \/ Report
    \/ CollectiveUpdate

SpecTaskFair == InitTask /\ [][NextTask]_vars /\ WF_vars(TaskStep)

(***************************************************************************)
(* The scheduler with verification that takes time: each re-check of a     *)
(* signal (lines 690-705, two calls through asyncio.to_thread) answers     *)
(* within the same second or a second later.                               *)
(***************************************************************************)
VerifyDurations == {0, 1}

NextLate ==
    \/ StartTask
    \/ Ingest
    \/ LoopHead
    \/ WakeVerify
    \/ \E d \in VerifyDurations : VerifyOneIn(d)
    \/ WakeFire
    \/ Fire
    \/ \E k \in DOMAIN runs : RunTradeReturns(k)
    \/ Join
    \/ Report
    \/ CollectiveUpdate

SpecLate == InitTask /\ [][NextLate]_vars

(***************************************************************************)
(* execute_trade_wrapper and the status display (telegram_bot.py lines     *)
(* 567-608 and 307-345).  calls holds the wrapper coroutines, which all    *)
(* run on the one event loop: the code of a wrapper before its await and   *)
(* its finally block after it are each one step.  A trade entry is the     *)
(* dict of line 571, compared by value as list.remove compares it.         *)
(***************************************************************************)
MaxWrappers == 3

MaxActiveClock == 2

ActiveSignals ==
    [asset : {"EURUSD", "GBPUSD"}, direction : {"call"}, expiry : {1},
     is_seconds : {FALSE}]

WrapperOutcomes == {"result", "exception"}

(* lines 571-577 *)
TradeEntry(sig, t) ==
    [asset |-> sig.asset, direction |-> sig.direction, expiry |-> sig.expiry,
     start_time |-> t, is_seconds |-> sig.is_seconds]

(* variant: every entry equal to x is taken out *)
remove_AllEqual(list, x) == SelectSeq(list, LAMBDA e : e # x)

(* list.remove(x): the first entry equal to x is taken out *)
remove(list, x) ==
    LET i == CHOOSE i \in DOMAIN list :
                 list[i] = x /\ \A j \in 1..(i - 1) : list[j] # x
    IN  [k \in 1..(Len(list) - 1) |-> IF k < i THEN list[k] ELSE list[k + 1]]

(* lines 571-579: the wrapper builds its entry, appends it and awaits      *)
(* run_trade in a thread                                                   *)
WrapperStart(i) ==
    /\ calls[i].pc = "new"
    /\ LET e == TradeEntry(calls[i].sig, now)
       IN  /\ calls' = [calls EXCEPT ![i].pc = "running", ![i].trade_entry = e]
           /\ ACTIVE_TRADES' = Append(ACTIVE_TRADES, e)
    /\ sent' = <<>>
    /\ UNCHANGED <<now, USER_CONFIG, task, runs, message_handler, transport,
                   monitorvars>>

(* lines 580-608: the await ends with a result or raises; either way the   *)
(* finally block takes the entry out if the list holds it                  *)
WrapperEnd(i) ==
    /\ calls[i].pc = "running"
    /\ \E o \in WrapperOutcomes :
          calls' = [calls EXCEPT ![i].pc = "ended", ![i].outcome = o]
    /\ ACTIVE_TRADES' =
          IF \E k \in DOMAIN ACTIVE_TRADES : ACTIVE_TRADES[k] = calls[i].trade_entry
          THEN remove(ACTIVE_TRADES, calls[i].trade_entry)
          ELSE ACTIVE_TRADES
    /\ sent' = <<>>
    /\ UNCHANGED <<now, USER_CONFIG, task, runs, message_handler, transport,
                   monitorvars>>

(* lines 324-334: one line per entry of ACTIVE_TRADES, with the minutes    *)
(* left of a one-minute trade; sent is the reply of the latest status      *)
(* command since the list or the clock last changed                        *)
Status ==
    /\ sent' = [k \in DOMAIN ACTIVE_TRADES |->
                  LET t == ACTIVE_TRADES[k]
                      elapsed == now - t.start_time
                  IN  Msg("Active", t.asset, t.direction,
                          IF t.expiry - elapsed > 0 THEN t.expiry - elapsed ELSE 0)]
    /\ sent' # sent
    /\ UNCHANGED <<now, USER_CONFIG, task, runs, ACTIVE_TRADES, tradevars,
                   monitorvars>>

(* a minute passes *)
ActiveTick ==
    /\ now < MaxActiveClock
    /\ now' = now + 1
    /\ sent' = <<>>
    /\ UNCHANGED <<USER_CONFIG, task, runs, ACTIVE_TRADES, tradevars,
                   monitorvars>>

InitActive ==
    /\ now = 0
    /\ USER_CONFIG = IdleConfig
    /\ task = IdleTask
    /\ runs = <<>>
    /\ sent = <<>>
    /\ ACTIVE_TRADES = <<>>
    /\ message_handler = IdleHandler
    /\ config = TradingConfig
    /\ monitor = <<>>
    /\ tasks = <<>>
    /\ transport = <<>>
    /\ \E n \in 1..MaxWrappers :
          calls \in [1..n -> [sig : ActiveSignals, pc : {"new"},
                              trade_entry : {TradeEntry(CHOOSE g \in ActiveSignals : TRUE, 0)},
                              outcome : {"none"}]]

NextActive ==
    \/ \E i \in DOMAIN calls : WrapperStart(i)
    \/ \E i \in DOMAIN calls : WrapperEnd(i)
    \/ Status
    \/ ActiveTick

SpecActive == InitActive /\ [][NextActive]_vars

(***************************************************************************)
(* The channel listener of on_startup (telegram_bot.py lines 868-931), the *)
(* channel toggles and the SOURCE filter of handle_message (lines 417-527).*)
(* calls[1] is the closure of on_startup: BATCH_BUFFER, BATCH_TIMER (the   *)
(* index in timers of the latest wait_and_flush task, 0 for None) and the  *)
(* wait_and_flush tasks themselves.  tasks holds the process_signals_task  *)
(* calls created, each with the signals it was given.  A signal is known   *)
(* by the message it came in (counted from 1 for the listener, from -1 for *)
(* forwarded messages) and its place in it.  now is in seconds.            *)
(***************************************************************************)
MaxEvents == 2

MaxToggles == 2

MaxForwards == 1

MaxListenerClock == 7

DEBOUNCE_SECS == 5

(* line 54: the channel ids of CHANNEL_NAMES, in the order of the dict *)
CHANNEL_NAMES == <<1, 2>>

ChannelIds == {CHANNEL_NAMES[k] : k \in DOMAIN CHANNEL_NAMES}

SignalCounts == {0, 1, 2}

listener == calls[1]

(* parse_signals applied to a message of channel c that holds n signals *)
MessageSignals(e, c, n) == [j \in 1..n |-> [msg |-> e, line |-> j, chat |-> c]]

Contains(list, x) == \E k \in DOMAIN list : list[k] = x

(* lines 427-442: the new value of active_channels when target_cid is      *)
(* toggled; an empty list is first replaced by the list of every channel   *)
ToggledChannels(active_channels, target_cid) ==
    LET active_ids == IF active_channels = <<>> THEN CHANNEL_NAMES
                      ELSE active_channels
    IN  IF Contains(active_ids, target_cid)
        THEN SelectSeq(active_ids, LAMBDA c : c # target_cid)
        ELSE Append(active_ids, target_cid)

(* variant: a source passes only when the list names it *)
FilteredOut_EmptyBlocksAll(active_ids, sid) == ~Contains(active_ids, sid)

(* lines 899 and 486: if active_ids and sid not in active_ids *)
FilteredOut(active_ids, sid) == active_ids # <<>> /\ ~Contains(active_ids, sid)

(* lines 417-450: the user presses the toggle button of a channel.         *)
(* toggled_off records what the user did: the channels toggled an odd      *)
(* number of times, every channel being on at the start                    *)
Toggle(target_cid) ==
    /\ listener.toggles < MaxToggles
    /\ calls' = [calls EXCEPT ![1].toggles = @ + 1,
                     ![1].toggled_off =
                         IF target_cid \in @ THEN @ \ {target_cid}
                         ELSE @ \cup {target_cid}]
    /\ USER_CONFIG' = [USER_CONFIG EXCEPT !.active_channels =
                           ToggledChannels(@, target_cid)]
    /\ UNCHANGED <<now, task, runs, sent, ACTIVE_TRADES, message_handler,
                   transport, monitorvars>>

(* variant: the pending timer is left to run beside the new one *)
RestartTimer_NoCancel(timers, BATCH_TIMER, t) ==
    Append(timers, [state |-> "sleeping", wake_at |-> t + DEBOUNCE_SECS])

(* lines 913-918: a pending wait_and_flush task is cancelled and a new one *)
(* is created, which sleeps 5 s                                            *)
RestartTimer(timers, BATCH_TIMER, t) ==
    LET cancelled ==
            IF BATCH_TIMER # 0 /\ timers[BATCH_TIMER].state = "sleeping"
            THEN [timers EXCEPT ![BATCH_TIMER] =
                                   [state |-> "cancelled", wake_at |-> 0]]
            ELSE timers
    IN  Append(cancelled, [state |-> "sleeping", wake_at |-> t + DEBOUNCE_SECS])

(* lines 892-921: bridge_handler after its await of get_chat, for a        *)
(* message of channel chat_id in which parse_signals finds n signals       *)
BridgeHandler(chat_id, n) ==
    /\ listener.events < MaxEvents
    /\ now + DEBOUNCE_SECS <= MaxListenerClock
    /\ LET e == listener.events + 1
           signals == MessageSignals(e, chat_id, n)
           l1 == [listener EXCEPT !.events = e]
       IN  calls' =
             IF FilteredOut(USER_CONFIG.active_channels, chat_id) \/ signals = <<>>
             THEN <<l1>>
             ELSE <<[l1 EXCEPT
                       !.BATCH_BUFFER = @ \o signals,
                       !.appended = @ \cup {signals[j] : j \in 1..n},
                       !.timers = RestartTimer(@, listener.BATCH_TIMER, now),
                       !.BATCH_TIMER = Len(listener.timers) + 1]>>
    /\ UNCHANGED <<now, USER_CONFIG, task, runs, sent, ACTIVE_TRADES,
                   message_handler, transport, monitorvars>>

(* lines 872-888 and 923-931: the sleep of a wait_and_flush task is over;  *)
(* flush_batch hands a copy of the buffer to a new process_signals_task    *)
(* and clears the buffer, or returns at once when the buffer is empty      *)
WaitAndFlush(k) ==
    /\ listener.timers[k].state = "sleeping"
    /\ now >= listener.timers[k].wake_at
    /\ calls' = [calls EXCEPT ![1].timers[k] = [state |-> "done", wake_at |-> 0],
                              ![1].BATCH_BUFFER = <<>>]
    /\ tasks' = IF listener.BATCH_BUFFER = <<>> THEN tasks
                ELSE Append(tasks, [origin |-> "flush",
                                    signals |-> listener.BATCH_BUFFER])
    /\ UNCHANGED <<now, USER_CONFIG, task, runs, sent, ACTIVE_TRADES,
                   message_handler, transport, config, monitor>>

(* lines 453-527: a forwarded message reaches handle_message, its one line *)
(* tagged SOURCE:sid; a line that passes the filter is scheduled at once   *)
SourceMessage(sid) ==
    /\ listener.forwards < MaxForwards
    /\ LET e == listener.forwards + 1
           allowed_lines == IF FilteredOut(USER_CONFIG.active_channels, sid)
                            THEN <<>>
                            ELSE MessageSignals(0 - e, sid, 1)
       IN  /\ calls' = [calls EXCEPT ![1].forwards = e]
           /\ tasks' = IF allowed_lines = <<>> THEN tasks
                       ELSE Append(tasks, [origin |-> "direct",
                                           signals |-> allowed_lines])
    /\ UNCHANGED <<now, USER_CONFIG, task, runs, sent, ACTIVE_TRADES,
                   message_handler, transport, config, monitor>>

(* a second passes *)
ListenerTick ==
    /\ now < MaxListenerClock
    /\ now' = now + 1
    /\ UNCHANGED <<botvars, tradevars, monitorvars>>

InitListener ==
    /\ now = 0
    /\ USER_CONFIG = IdleConfig @@ [active_channels |-> <<>>]
    /\ task = IdleTask
    /\ runs = <<>>
    /\ sent = <<>>
    /\ ACTIVE_TRADES = <<>>
    /\ message_handler = IdleHandler
    /\ config = TradingConfig
    /\ monitor = <<>>
    /\ tasks = <<>>
    /\ transport = <<>>
    /\ calls = <<[BATCH_BUFFER |-> <<>>, BATCH_TIMER |-> 0, timers |-> <<>>,
                  events |-> 0, forwards |-> 0, toggles |-> 0,
                  toggled_off |-> {},
                  appended |-> {}]>>

NextListener ==
    \/ \E c \in ChannelIds : Toggle(c)
    \/ \E c \in ChannelIds, n \in SignalCounts : BridgeHandler(c, n)
    \/ \E k \in DOMAIN listener.timers : WaitAndFlush(k)
    \/ \E c \in ChannelIds : SourceMessage(c)
    \/ ListenerTick

SpecListener == InitListener /\ [][NextListener]_vars

(* the event loop runs a task whose sleep is over, and time goes on *)
SpecListenerFair ==
    /\ SpecListener
    /\ WF_vars(ListenerTick)
    /\ WF_vars(\E k \in DOMAIN listener.timers : WaitAndFlush(k))

(***************************************************************************)
(* SpecRun: run_trade invocations running side by side (one thread each),  *)
(* every api call one step.                                                *)
(***************************************************************************)
InitRunOnly ==
    /\ now = 0
    /\ USER_CONFIG = IdleConfig
    /\ task = IdleTask
    /\ sent = <<>>
    /\ ACTIVE_TRADES = <<>>
    /\ message_handler = IdleHandler
    /\ config = TradingConfig
    /\ monitor = <<>>
    /\ tasks = <<>>
    /\ calls = <<>>
    /\ transport = <<>>
    /\ \E n \in 1..MaxRuns, a \in Amounts, g \in 0..MaxGales :
          runs = [k \in 1..n |-> InitRun(a, g)]

PlaceStep(k) ==
    /\ runs[k].pc = "place"
    /\ \E p \in PlacementResults :
          runs' = [runs EXCEPT ![k] = AfterPlace(runs[k], p)]
    /\ UNCHANGED <<now, USER_CONFIG, task, sent, ACTIVE_TRADES, tradevars, monitorvars>>

OutcomeStep(k) ==
    /\ runs[k].pc = "outcome"
    /\ \E o \in OutcomeResults(runs[k].current_amount) :
          runs' = [runs EXCEPT ![k] = AfterOutcome(runs[k], o)]
    /\ UNCHANGED <<now, USER_CONFIG, task, sent, ACTIVE_TRADES, tradevars, monitorvars>>

NextRun ==
    \/ \E k \in DOMAIN runs : PlaceStep(k)
    \/ \E k \in DOMAIN runs : OutcomeStep(k)

SpecRun == InitRunOnly /\ [][NextRun]_vars

(* every api call of run_trade returns: the placement wait and the outcome  *)
(* wait are each bounded by their timeout                                   *)
SpecRunFair == SpecRun /\ WF_vars(NextRun)

(***************************************************************************)
(* SpecBucket: the wrappers of one bucket.  asyncio.gather starts every    *)
(* execute_trade_wrapper; each hands run_trade to asyncio.to_thread, that  *)
(* is to the event loop's default ThreadPoolExecutor, which runs at most   *)
(* min(32, os.cpu_count() + 4) work items at a time and keeps the others   *)
(* in a first-in first-out queue until a thread is free.                   *)
(***************************************************************************)
MaxBucket == 6

(* os.cpu_count() of the machines tried *)
CpuCounts == {1, 2}

Min(a, b) == IF a < b THEN a ELSE b

max_workers(cpu_count) == Min(32, cpu_count + 4)

(* the api answers tried in a bucket: the placement is confirmed, the      *)
(* trade closes with a win or a loss of the stake                          *)
BucketOutcomes(stake) ==
    {o \in OutcomeResults(stake) : o.closed /\ o.pl_amount # 0}

Executor(cpu_count) ==
    [kind |-> "executor", max_workers |-> max_workers(cpu_count)]

(* line 580: the work item of a wrapper that to_thread has submitted *)
QueuedRun(amount, max_gales) ==
    [InitRun(amount, max_gales) EXCEPT !.pc = "queued"]

QueuedRuns == {k \in DOMAIN runs : runs[k].pc = "queued"}

BusyThreads == {k \in DOMAIN runs : runs[k].pc \in {"place", "outcome"}}

(* lines 590-608: after run_trade has returned the wrapper drops its entry *)
WrapperFinally(k, r) ==
    IF r.pc = "done"
    THEN SelectSeq(ACTIVE_TRADES, LAMBDA id : id # k)
    ELSE ACTIVE_TRADES

(* a pool thread takes the oldest work item and enters run_trade *)
ThreadStart(k) ==
    /\ runs[k].pc = "queued"
    /\ \A j \in QueuedRuns : k <= j
    /\ Cardinality(BusyThreads) < calls[1].max_workers
    /\ runs' = [runs EXCEPT ![k].pc = "place"]
    /\ UNCHANGED <<now, USER_CONFIG, task, sent, ACTIVE_TRADES, tradevars, monitorvars>>

BucketPlace(k) ==
    /\ runs[k].pc = "place"
    /\ LET r == AfterPlace(runs[k], "ok")
       IN  /\ runs' = [runs EXCEPT ![k] = r]
           /\ ACTIVE_TRADES' = WrapperFinally(k, r)
    /\ UNCHANGED <<now, USER_CONFIG, task, sent, tradevars, monitorvars>>

BucketOutcome(k) ==
    /\ runs[k].pc = "outcome"
    /\ \E o \in BucketOutcomes(runs[k].current_amount) :
          LET r == AfterOutcome(runs[k], o)
          IN  /\ runs' = [runs EXCEPT ![k] = r]
              /\ ACTIVE_TRADES' = WrapperFinally(k, r)
    /\ UNCHANGED <<now, USER_CONFIG, task, sent, tradevars, monitorvars>>

(* lines 744-754 and 567-580: gather has started the wrappers of a bucket, *)
(* each has added its entry and submitted its run_trade                    *)
InitBucket ==
    /\ now = 0
    /\ USER_CONFIG = IdleConfig
    /\ task = IdleTask
    /\ sent = <<>>
    /\ message_handler = IdleHandler
    /\ config = TradingConfig
    /\ monitor = <<>>
    /\ tasks = <<>>
    /\ transport = <<>>
    /\ \E cpu_count \in CpuCounts : calls = <<Executor(cpu_count)>>
    /\ \E n \in 1..MaxBucket :
          /\ runs = [k \in 1..n |-> QueuedRun(DEFAULT_AMOUNT, 1)]
          /\ ACTIVE_TRADES = [k \in 1..n |-> k]

NextBucket ==
    \/ \E k \in DOMAIN runs : ThreadStart(k)
    \/ \E k \in DOMAIN runs : BucketPlace(k)
    \/ \E k \in DOMAIN runs : BucketOutcome(k)

SpecBucket == InitBucket /\ [][NextBucket]_vars

(***************************************************************************)
(* trade.py: TradeManager places an order and waits for its confirmation.  *)
(* The message handler that fills pending_digital_orders and               *)
(* recent_binary_opens is not part of the sources; VenueReply below is     *)
(* what trade.py expects of it.                                            *)
(***************************************************************************)
MaxPlacements == 2

MaxWaitClock == 15

(* the clock moves in steps of TickSecs while a call waits *)
TickSecs == 5

(* trade.py line 62 (wait_for timeout) and line 182 (timeout:int=10) *)
CONFIRM_TIMEOUT_SECS == 10

(* line 195: created_at >= (start_time - 5) *)
MATCH_WINDOW_SECS == 5

Families == {"digital", "binary"}

(* line 49 and line 148: str(randint(0, 100000)) *)
RequestIds == {1, 2}

(* options_assests.UNDERLYING_ASSESTS, lines 34-37 *)
UNDERLYING_ASSESTS == {"EURUSD"}

(* amounts of a placement are counted in half cents *)
DOLLAR == 200

(* line 201: abs(o_amt - amount) < 0.01 *)
AMOUNT_EPSILON == 2

Abs(x) == IF x < 0 THEN 0 - x ELSE x

ValidParams ==
    [asset |-> "EURUSD", amount |-> DOLLAR, direction |-> "call",
     expiry |-> [is_int |-> TRUE, value |-> 1]]

(* the arguments of one placement call *)
PlacementInputs ==
    {ValidParams,
     [ValidParams EXCEPT !.direction = "PUT"],
     [ValidParams EXCEPT !.asset = ""],
     [ValidParams EXCEPT !.asset = "XXXYYY"],
     [ValidParams EXCEPT !.amount = 0],
     [ValidParams EXCEPT !.direction = "up"],
     [ValidParams EXCEPT !.expiry = [is_int |-> TRUE, value |-> 0]],
     [ValidParams EXCEPT !.expiry = [is_int |-> FALSE, value |-> 1]]}

(* str.lower() on the directions used here *)
Lower(direction) ==
    CASE direction = "PUT" -> "put"
      [] direction = "CALL" -> "call"
      [] OTHER -> direction

(* lines 105-116: the first check that fails *)
ValidationError_NoExpiryCheck(p, has_account) ==
    IF p.asset = "" THEN "Asset name cannot be empty"
    ELSE IF p.amount < DOLLAR THEN "Minimum Bet Amount is $1"
    ELSE IF Lower(p.direction) \notin {"put", "call"}
    THEN "Direction must be 'put' or 'call'"
    ELSE IF ~has_account THEN "No active account available"
    ELSE "none"

ValidationError(p, has_account) ==
    IF p.asset = "" THEN "Asset name cannot be empty"
    ELSE IF p.amount < DOLLAR THEN "Minimum Bet Amount is $1"
    ELSE IF Lower(p.direction) \notin {"put", "call"}
    THEN "Direction must be 'put' or 'call'"
    ELSE IF ~p.expiry.is_int \/ p.expiry.value < 1
    THEN "Expiry must be positive integer"
    ELSE IF ~has_account THEN "No active account available"
    ELSE "none"

ValidationReasons ==
    {"Asset name cannot be empty", "Minimum Bet Amount is $1",
     "Direction must be 'put' or 'call'", "Expiry must be positive integer",
     "No active account available"}

(* line 74 and line 221 *)
TimeoutReason(family) ==
    IF family = "digital" THEN "Order confirmation timed out"
    ELSE "Binary order confirmation timed out (No match found)"

NotReturned == [success |-> FALSE, order_id |-> 0, reason |-> "none"]

PlaceFailure(reason) == [success |-> FALSE, order_id |-> 0, reason |-> reason]

PlaceSuccess(order_id) ==
    [success |-> TRUE, order_id |-> order_id, reason |-> "none"]

NoFuture == [state |-> "none", ok |-> FALSE, order_id |-> 0, at |-> 0]

(* lines 62 and 186: the instant the wait gives up *)
Deadline_Half(start) == start + 5

Deadline(start) == start + CONFIRM_TIMEOUT_SECS

(* lines 40-58 and 135-155 up to the wait, which run without suspending:   *)
(* validation, the request body, the pending slot (digital) and the send;  *)
(* the request id is drawn (lines 49, 148) once validation has passed      *)
NewCall(family, p, has_account, request_id, i, t) ==
    LET err == ValidationError(p, has_account)
        base == [kind |-> "place", family |-> family, params |-> p,
                 called_at |-> t, returned_at |-> t, pc |-> "returned",
                 request_id |-> 0, start_time |-> t,
                 deadline |-> t, future |-> NoFuture,
                 result |-> NotReturned,
                 overlaps |-> {}]
        \* history: the binary placements waiting when this one begins
        waiting == {k \in DOMAIN calls :
                       /\ calls[k].kind = "place"
                       /\ calls[k].family = "binary"
                       /\ calls[k].pc = "wait"}
    IN  IF err # "none"
        THEN [base EXCEPT !.result = PlaceFailure(err)]
        ELSE IF p.asset \notin UNDERLYING_ASSESTS
        THEN [base EXCEPT !.result = PlaceFailure("KeyError: not found!")]
        ELSE [base EXCEPT !.pc = "wait", !.deadline = Deadline(t),
                          !.request_id = request_id,
                          !.overlaps = IF family = "binary" THEN waiting
                                       ELSE {},
                          !.future = IF family = "digital"
                                     THEN [NoFuture EXCEPT !.state = "pending"]
                                     ELSE NoFuture]

(* lines 191-207: the open events that wait_for_binary_order_confirmation  *)
(* takes for the call's own                                                *)
Matches_AnyTime(c, ev) ==
    /\ ev.active_id = c.params.asset
    /\ Abs(ev.amount - c.params.amount) < AMOUNT_EPSILON
    /\ ev.direction = Lower(c.params.direction)

Matches(c, ev) ==
    /\ ev.created_at >= c.start_time - MATCH_WINDOW_SECS
    /\ ev.active_id = c.params.asset
    /\ Abs(ev.amount - c.params.amount) < AMOUNT_EPSILON
    /\ ev.direction = Lower(c.params.direction)

MatchingOpens(c) ==
    {k \in DOMAIN message_handler.recent_binary_opens :
        Matches(c, message_handler.recent_binary_opens[k])}

(* variant: the newest matching event is taken *)
FirstMatch_Newest(c) ==
    message_handler.recent_binary_opens[
        CHOOSE k \in MatchingOpens(c) : \A j \in MatchingOpens(c) : k >= j]

FirstMatch(c) ==
    message_handler.recent_binary_opens[
        CHOOSE k \in MatchingOpens(c) : \A j \in MatchingOpens(c) : k <= j]

Waiting(i) == calls[i].kind = "place" /\ calls[i].pc = "wait"

(* a waiting call that the loop would resume now *)
Ready(i) ==
    /\ Waiting(i)
    /\ \/ now >= calls[i].deadline
       \/ calls[i].family = "digital" /\ calls[i].future.state = "done"
       \/ calls[i].family = "binary" /\ MatchingOpens(calls[i]) # {}

Drop(f, x) == [y \in DOMAIN f \ {x} |-> f[y]]

(* _execute_digital_option_trade / _execute_binary_option_trade is called *)
ExecuteTrade(family, p, has_account, request_id) ==
    /\ Len(calls) < MaxPlacements
    /\ LET i == Len(calls) + 1
           c == NewCall(family, p, has_account, request_id, i, now)
       IN  /\ calls' = Append(calls, c)
           /\ transport' =
                IF c.pc = "wait"
                THEN Append(transport,
                            [call |-> i, request_id |-> request_id,
                             family |-> family, answered |-> FALSE])
                ELSE transport
           /\ message_handler' =
                IF c.pc = "wait" /\ family = "digital"
                THEN [message_handler EXCEPT !.pending_digital_orders =
                         (request_id :> i) @@ @]
                ELSE message_handler
    /\ UNCHANGED <<now, botvars, monitorvars>>

(* the venue answers request m: a digital answer resolves the future in    *)
(* the slot of its request id, a binary acceptance appends an open event   *)
VenueReply(m, ok) ==
    /\ m \in DOMAIN transport
    /\ ~transport[m].answered
    /\ transport' = [transport EXCEPT ![m].answered = TRUE]
    /\ LET rid == transport[m].request_id
           c == calls[transport[m].call]
           pending == message_handler.pending_digital_orders
       IN  IF transport[m].family = "digital"
           THEN IF rid \in DOMAIN pending
                THEN /\ calls' = [calls EXCEPT ![pending[rid]].future =
                            [state |-> "done", ok |-> ok,
                             order_id |-> IF ok THEN 100 + m ELSE 0,
                             at |-> now]]
                     /\ message_handler' =
                          [message_handler EXCEPT
                              !.pending_digital_orders = Drop(pending, rid)]
                ELSE UNCHANGED <<calls, message_handler>>
           ELSE /\ message_handler' =
                     IF ok
                     THEN [message_handler EXCEPT !.recent_binary_opens =
                              Append(@, [id |-> 100 + m,
                                         active_id |-> c.params.asset,
                                         amount |-> c.params.amount,
                                         direction |-> Lower(c.params.direction),
                                         created_at |-> now])]
                     ELSE message_handler
                /\ UNCHANGED calls
    /\ UNCHANGED <<now, botvars, monitorvars>>

(* lines 62-69: the future has a result *)
DigitalReturn(i) ==
    /\ Waiting(i)
    /\ calls[i].family = "digital"
    /\ calls[i].future.state = "done"
    /\ calls' = [calls EXCEPT ![i].pc = "returned", ![i].returned_at = now,
                    ![i].result =
                        IF calls[i].future.ok
                        THEN PlaceSuccess(calls[i].future.order_id)
                        ELSE PlaceFailure("venue rejection")]
    /\ UNCHANGED <<now, botvars, message_handler, transport, monitorvars>>

(* lines 71-74: asyncio.TimeoutError *)
DigitalTimeout(i) ==
    /\ Waiting(i)
    /\ calls[i].family = "digital"
    /\ calls[i].future.state = "pending"
    /\ now >= calls[i].deadline
    /\ message_handler' =
          [message_handler EXCEPT !.pending_digital_orders =
              Drop(@, calls[i].request_id)]
    /\ calls' = [calls EXCEPT ![i].pc = "returned", ![i].returned_at = now,
                    ![i].result = PlaceFailure(TimeoutReason("digital"))]
    /\ UNCHANGED <<now, botvars, transport, monitorvars>>

(* lines 188-205: a pass of the loop finds a matching open event *)
BinaryMatch(i) ==
    /\ Waiting(i)
    /\ calls[i].family = "binary"
    /\ now < calls[i].deadline
    /\ MatchingOpens(calls[i]) # {}
    /\ calls' = [calls EXCEPT ![i].pc = "returned", ![i].returned_at = now,
                    ![i].result = PlaceSuccess(FirstMatch(calls[i]).id)]
    /\ UNCHANGED <<now, botvars, message_handler, transport, monitorvars>>

(* lines 188 and 221: the loop condition fails *)
BinaryTimeout(i) ==
    /\ Waiting(i)
    /\ calls[i].family = "binary"
    /\ now >= calls[i].deadline
    /\ calls' = [calls EXCEPT ![i].pc = "returned", ![i].returned_at = now,
                    ![i].result = PlaceFailure(TimeoutReason("binary"))]
    /\ UNCHANGED <<now, botvars, message_handler, transport, monitorvars>>

(* time passes while every waiting call is suspended *)
Tick ==
    /\ \E i \in DOMAIN calls : Waiting(i)
    /\ \A i \in DOMAIN calls : ~Ready(i)
    /\ now + TickSecs <= MaxWaitClock
    /\ now' = now + TickSecs
    /\ UNCHANGED <<botvars, tradevars, monitorvars>>

InitPlace ==
    /\ now = 0
    /\ USER_CONFIG = IdleConfig
    /\ task = IdleTask
    /\ runs = <<>>
    /\ sent = <<>>
    /\ ACTIVE_TRADES = <<>>
    /\ message_handler = IdleHandler
    /\ config = TradingConfig
    /\ monitor = <<>>
    /\ tasks = <<>>
    /\ calls = <<>>
    /\ transport = <<>>

NextPlace ==
    \/ \E family \in Families, p \in PlacementInputs,
          has_account \in BOOLEAN, request_id \in RequestIds :
            ExecuteTrade(family, p, has_account, request_id)
    \/ \E m \in DOMAIN transport, ok \in BOOLEAN : VenueReply(m, ok)
    \/ \E i \in DOMAIN calls : DigitalReturn(i)
    \/ \E i \in DOMAIN calls : DigitalTimeout(i)
    \/ \E i \in DOMAIN calls : BinaryMatch(i)
    \/ \E i \in DOMAIN calls : BinaryTimeout(i)
    \/ Tick

SpecPlace == InitPlace /\ [][NextPlace]_vars

(***************************************************************************)
(* The digital family on its own, with a transport that can fail.          *)
(***************************************************************************)
(* lines 56-58 and 79-81: ws_manager.send_message raises after the slot     *)
(* was registered; the exception is caught and reported                     *)
ExecuteTradeSendFails(p, request_id) ==
    /\ Len(calls) < MaxPlacements
    /\ LET i == Len(calls) + 1
           c == NewCall("digital", p, TRUE, request_id, i, now)
       IN  /\ c.pc = "wait"
           /\ calls' = Append(calls,
                  [c EXCEPT !.pc = "returned",
                            !.result = PlaceFailure("Unexpected error")])
           /\ message_handler' =
                 [message_handler EXCEPT !.pending_digital_orders =
                     (request_id :> i) @@ @]
    /\ UNCHANGED <<now, botvars, transport, monitorvars>>

NextDigital ==
    \/ \E p \in PlacementInputs, has_account \in BOOLEAN,
          request_id \in RequestIds :
            ExecuteTrade("digital", p, has_account, request_id)
    \/ \E p \in PlacementInputs, request_id \in RequestIds :
          ExecuteTradeSendFails(p, request_id)
    \/ \E m \in DOMAIN transport, ok \in BOOLEAN : VenueReply(m, ok)
    \/ \E i \in DOMAIN calls : DigitalReturn(i)
    \/ \E i \in DOMAIN calls : DigitalTimeout(i)
    \/ Tick

SpecDigital == InitPlace /\ [][NextDigital]_vars

(***************************************************************************)
(* The binary family on its own, with placements that differ in one of    *)
(* the parameters the confirmation is matched by.                          *)
(***************************************************************************)
BinaryInputs ==
    {ValidParams,
     [ValidParams EXCEPT !.direction = "PUT"],
     [ValidParams EXCEPT !.amount = DOLLAR + 1],
     [ValidParams EXCEPT !.amount = DOLLAR + AMOUNT_EPSILON]}

(* time passes between two placements, while no call is waiting *)
IdleTick ==
    /\ \A i \in DOMAIN calls : ~Waiting(i)
    /\ Len(calls) < MaxPlacements
    /\ now + TickSecs <= MaxWaitClock
    /\ now' = now + TickSecs
    /\ UNCHANGED <<botvars, tradevars, monitorvars>>

NextBinary ==
    \/ \E p \in BinaryInputs : ExecuteTrade("binary", p, TRUE, 0)
    \/ \E m \in DOMAIN transport, ok \in BOOLEAN : VenueReply(m, ok)
    \/ \E i \in DOMAIN calls : BinaryMatch(i)
    \/ \E i \in DOMAIN calls : BinaryTimeout(i)
    \/ Tick
    \/ IdleTick

SpecBinary == InitPlace /\ [][NextBinary]_vars

(***************************************************************************)
(* trade.py: get_trade_outcome and get_binary_trade_outcome poll the       *)
(* position_info cache every half second.  In this specification the       *)
(* clock counts half seconds.                                              *)
(***************************************************************************)
MaxOutcomeClock == 72

TicksPerSec == 2

(* lines 123 and 227: timeout + 3 *)
OUTCOME_MARGIN_SECS == 3

(* lines 130 and 284: asyncio.sleep(.5), in half seconds *)
POLL_TICKS == 1

(* what get_remaining_secs (utilities.py lines 67-70) gave when the wait   *)
(* began: never less than min_time_needed = 31 (utilities.py line 37)      *)
RemainingSecs == {31, 32}

(* how much later than asked a sleep may return, in half seconds *)
SleepJitter == {0, 1}

OrderId == 101

(* entries the message handler may hold for the order in position_info *)
DigitalEntries ==
    {[status |-> st, close_time |-> 0, pnl |-> pl, win |-> "none",
      amount |-> 1, profit_amount |-> 0] :
        st \in {"open", "closed"}, pl \in {0 - 1, 1}}

BinaryEntries ==
    {[status |-> st, close_time |-> ct, pnl |-> 0, win |-> w,
      amount |-> 1, profit_amount |-> pa] :
        st \in {"open", "closed"}, ct \in {0, 1}, w \in {"win", "none"},
        pa \in {0, 2}}

CacheEntries(family) ==
    IF family = "digital" THEN DigitalEntries ELSE BinaryEntries

(* lines 125 and 231 *)
IsClosed(family, order_data) ==
    /\ order_data # <<>>
    /\ IF family = "digital"
       THEN order_data.status = "closed"
       ELSE order_data.status = "closed" \/ order_data.close_time # 0

(* lines 244-276: the value of the local result when pnl is returned *)
BinaryClass(order_data) ==
    LET invest == order_data.amount
        profit_amount == order_data.profit_amount
    IN  IF order_data.win \in {"win", "equal", "loose"} THEN order_data.win
        ELSE IF profit_amount > invest THEN "win"
        ELSE IF profit_amount > 0 /\ profit_amount < invest THEN "loose"
        ELSE IF profit_amount = invest THEN "equal"
        ELSE "loose"

(* lines 250-276: the net result of a closed binary order *)
BinaryPnl(order_data) ==
    LET invest == order_data.amount
        profit_amount == order_data.profit_amount
    IN  CASE order_data.win = "win" -> profit_amount - invest
          [] order_data.win = "equal" -> 0
          [] order_data.win = "loose" -> 0 - invest
          [] OTHER ->
                IF profit_amount > invest THEN profit_amount - invest
                ELSE IF profit_amount > 0 /\ profit_amount < invest
                THEN profit_amount - invest
                ELSE IF profit_amount = invest THEN 0
                ELSE 0 - invest

(* lines 126 and 283 *)
ClosedPnl(family, order_data) ==
    IF family = "digital" THEN order_data.pnl ELSE BinaryPnl(order_data)

OutcomePending == [success |-> FALSE, is_none |-> FALSE, pnl |-> 0]

(* lines 132 and 286: return False, None *)
OutcomeTimedOut == [success |-> FALSE, is_none |-> TRUE, pnl |-> 0]

(* lines 129 and 283: return True, pnl *)
OutcomeClosed(pnl) == [success |-> TRUE, is_none |-> FALSE, pnl |-> pnl]

(* lines 121-123 and 225-227: the ceiling, fixed when the wait begins *)
Ceiling_NoMargin(timeout) == timeout * TicksPerSec

Ceiling(timeout) == (timeout + OUTCOME_MARGIN_SECS) * TicksPerSec

OutcomeCall(family, timeout, t) ==
    [kind |-> "outcome", family |-> family, order_id |-> OrderId,
     called_at |-> t, timeout |-> timeout, ceiling |-> Ceiling(timeout),
     pc |-> "poll",
     wake_at |-> 0, returned_at |-> 0, result |-> OutcomePending]

CachedOrder(order_id) ==
    IF order_id \in DOMAIN message_handler.position_info
    THEN message_handler.position_info[order_id]
    ELSE <<>>

(* lines 123-130 and 227-284: the loop condition and one pass of the body  *)
PollOutcome(i) ==
    /\ calls[i].kind = "outcome"
    /\ calls[i].pc = "poll"
    /\ LET c == calls[i]
           order_data == CachedOrder(c.order_id)
       IN  calls' = [calls EXCEPT ![i] =
              IF ~(now - c.called_at < c.ceiling)
              THEN [c EXCEPT !.pc = "returned", !.returned_at = now,
                             !.result = OutcomeTimedOut]
              ELSE IF IsClosed(c.family, order_data)
              THEN [c EXCEPT !.pc = "returned", !.returned_at = now,
                             !.result =
                                OutcomeClosed(ClosedPnl(c.family, order_data))]
              ELSE [c EXCEPT !.pc = "sleep", !.wake_at = now + POLL_TICKS]]
    /\ UNCHANGED <<now, botvars, message_handler, transport, monitorvars>>

(* lines 130 and 284: asyncio.sleep(.5) returns *)
WakeOutcome(i) ==
    /\ calls[i].kind = "outcome"
    /\ calls[i].pc = "sleep"
    /\ \E d \in SleepJitter :
          /\ calls[i].wake_at + d <= MaxOutcomeClock
          /\ now' = calls[i].wake_at + d
    /\ calls' = [calls EXCEPT ![i].pc = "poll", ![i].wake_at = 0]
    /\ UNCHANGED <<botvars, message_handler, transport, monitorvars>>

(* the message handler records a change of the order *)
PositionChanged(i, entry) ==
    /\ calls[i].kind = "outcome"
    /\ entry \in CacheEntries(calls[i].family)
    /\ CachedOrder(calls[i].order_id) # entry
    /\ message_handler' =
          [message_handler EXCEPT !.position_info =
              (calls[i].order_id :> entry) @@ @]
    /\ UNCHANGED <<now, botvars, calls, transport, monitorvars>>

InitOutcome ==
    /\ now = 0
    /\ USER_CONFIG = IdleConfig
    /\ task = IdleTask
    /\ runs = <<>>
    /\ sent = <<>>
    /\ ACTIVE_TRADES = <<>>
    /\ message_handler = IdleHandler
    /\ config = TradingConfig
    /\ monitor = <<>>
    /\ tasks = <<>>
    /\ transport = <<>>
    /\ \E family \in Families, timeout \in RemainingSecs :
          calls = <<OutcomeCall(family, timeout, 0)>>

OutcomeWaitStep ==
    \E i \in DOMAIN calls : PollOutcome(i) \/ WakeOutcome(i)

NextOutcome ==
    \/ \E i \in DOMAIN calls : PollOutcome(i)
    \/ \E i \in DOMAIN calls : WakeOutcome(i)
    \/ \E i \in DOMAIN calls :
          \E entry \in DigitalEntries \cup BinaryEntries :
             PositionChanged(i, entry)

SpecOutcome == InitOutcome /\ [][NextOutcome]_vars

(* the event loop runs a coroutine that is ready and a sleep returns *)
SpecOutcomeFair == SpecOutcome /\ WF_vars(OutcomeWaitStep)

(***************************************************************************)
(* The pnl of get_binary_trade_outcome for every kind of closed order.     *)
(***************************************************************************)
(* the venue's result tag; "none" stands for an absent or unknown tag *)
ResultTags == {"win", "equal", "loose", "none"}

(* closed binary orders as the cache holds them: amount is the stake (0     *)
(* when the field is absent, line 246), profit_amount the gross return (0   *)
(* also when it is absent or None, line 247)                                *)
ClosedBinaryOrders ==
    {[status |-> "closed", close_time |-> 1, pnl |-> 0, win |-> w,
      amount |-> a, profit_amount |-> pa] :
        w \in ResultTags, a \in 0..3, pa \in 0..3}

BinaryPnlCall(order_data) ==
    [kind |-> "binary_pnl", order_data |-> order_data, pc |-> "closed",
     class |-> "none", result |-> OutcomePending]

(* lines 231-283: the pass of the loop that finds the order closed *)
BinaryOutcomeReturns(i) ==
    /\ calls[i].kind = "binary_pnl"
    /\ calls[i].pc = "closed"
    /\ IsClosed("binary", calls[i].order_data)
    /\ calls' = [calls EXCEPT ![i].pc = "returned",
                    ![i].class = BinaryClass(calls[i].order_data),
                    ![i].result =
                        OutcomeClosed(BinaryPnl(calls[i].order_data))]
    /\ UNCHANGED <<now, botvars, message_handler, transport, monitorvars>>

InitBinaryPnl ==
    /\ now = 0
    /\ USER_CONFIG = IdleConfig
    /\ task = IdleTask
    /\ runs = <<>>
    /\ sent = <<>>
    /\ ACTIVE_TRADES = <<>>
    /\ message_handler = IdleHandler
    /\ transport = <<>>
    /\ config = TradingConfig
    /\ monitor = <<>>
    /\ tasks = <<>>
    /\ \E order_data \in ClosedBinaryOrders :
          calls = <<BinaryPnlCall(order_data)>>

NextBinaryPnl == \E i \in DOMAIN calls : BinaryOutcomeReturns(i)

SpecBinaryPnl == InitBinaryPnl /\ [][NextBinaryPnl]_vars

(***************************************************************************)
(* trade.py: the loop of wait_for_binary_order_confirmation, pass by pass. *)
(* The clock is in half seconds and is the reading of time.time() rounded  *)
(* down: a coroutine that becomes runnable at one reading runs at that     *)
(* reading or at the next one.  The message handler that appends the open  *)
(* events and sets binary_order_event is not part of the sources.          *)
(***************************************************************************)
MaxWaiters == 2

MaxConfirmClock == 21

(* the open events the venue sends while the calls wait *)
MaxOpenEvents == 1

(* line 217: timeout=min(remaining, 0.5), in half seconds *)
WAIT_TICKS == 1

(* line 186: end_time = time.time() + timeout *)
EndTime(t) == t + CONFIRM_TIMEOUT_SECS * TicksPerSec

(* the placements that wait: same asset and amount, either direction *)
WaiterInputs == {ValidParams, [ValidParams EXCEPT !.direction = "put"]}

(* lines 182-186: the call has computed end_time and enters the loop *)
ConfirmCall(p, t) ==
    [kind |-> "confirm", params |-> p, start_time |-> t,
     end_time |-> EndTime(t), pc |-> "run", due_at |-> t, wake_at |-> t,
     notified |-> FALSE, answered |-> FALSE, result |-> NotReturned]

(* created_at and start_time are compared in seconds (lines 192-195) *)
InSeconds(c) == [c EXCEPT !.start_time = c.start_time \div TicksPerSec]

(* the call has returned; its wait bookkeeping is gone *)
Returned(c, result) ==
    [c EXCEPT !.pc = "returned", !.result = result, !.notified = FALSE,
              !.due_at = 0, !.wake_at = 0]

ConfirmWaiting(i) == calls[i].kind = "confirm" /\ calls[i].pc = "wait"

(* the loop could resume the call: it has not yet run, its event wait was   *)
(* woken by set(), or the wait_for timeout has passed                       *)
Runnable(i) ==
    /\ calls[i].kind = "confirm"
    /\ \/ calls[i].pc = "run"
       \/ calls[i].pc = "wait" /\ (calls[i].notified \/ now >= calls[i].wake_at)

(* the reading at which the call became runnable *)
RunnableSince(i) ==
    IF calls[i].pc = "wait"
    THEN IF calls[i].notified THEN Min(calls[i].due_at, calls[i].wake_at)
         ELSE calls[i].wake_at
    ELSE calls[i].due_at

(* lines 188-221: the call is resumed and runs one pass of the loop: the    *)
(* loop condition, the scan of the list, then clear() and the next wait     *)
LoopPass(i) ==
    /\ Runnable(i)
    /\ LET c == calls[i]
           found == MatchingOpens(InSeconds(c)) # {}
       IN  IF now >= c.end_time
           THEN /\ calls' = [calls EXCEPT ![i] =
                               Returned(c, PlaceFailure(TimeoutReason("binary")))]
                /\ UNCHANGED message_handler
           ELSE IF found
           THEN /\ calls' = [calls EXCEPT ![i] =
                               Returned(c, PlaceSuccess(
                                               FirstMatch(InSeconds(c)).id))]
                /\ UNCHANGED message_handler
           ELSE /\ calls' = [calls EXCEPT ![i].pc = "wait",
                               ![i].notified = FALSE,
                               ![i].due_at = 0,
                               ![i].wake_at =
                                   now + Min(c.end_time - now, WAIT_TICKS)]
                /\ message_handler' =
                     [message_handler EXCEPT !.binary_order_event = FALSE]
    /\ UNCHANGED <<now, botvars, transport, monitorvars>>

(* the venue's open event for the order of call i arrives: the handler      *)
(* appends it and calls binary_order_event.set(), which wakes every call    *)
(* waiting on the event                                                     *)
OpenEventArrives(i) ==
    /\ calls[i].kind = "confirm"
    /\ ~calls[i].answered
    /\ Len(message_handler.recent_binary_opens) < MaxOpenEvents
    /\ message_handler' =
          [message_handler EXCEPT
              !.recent_binary_opens =
                  Append(@, [id |-> 100 + i,
                             active_id |-> calls[i].params.asset,
                             amount |-> calls[i].params.amount,
                             direction |-> Lower(calls[i].params.direction),
                             created_at |-> now \div TicksPerSec,
                             added_at |-> now]),
              !.binary_order_event = TRUE]
    /\ calls' = [k \in DOMAIN calls |->
                    IF k = i THEN
                        [calls[k] EXCEPT !.answered = TRUE,
                            !.notified = @ \/ calls[k].pc = "wait",
                            !.due_at = IF calls[k].pc = "wait" /\ ~calls[k].notified
                                       THEN now ELSE @]
                    ELSE IF ConfirmWaiting(k) /\ ~calls[k].notified
                    THEN [calls[k] EXCEPT !.notified = TRUE, !.due_at = now]
                    ELSE calls[k]]
    /\ UNCHANGED <<now, botvars, transport, monitorvars>>

(* the clock reading moves on; a runnable call has run by the reading       *)
(* after the one at which it became runnable                                *)
ConfirmTick ==
    /\ now < MaxConfirmClock
    /\ \A i \in DOMAIN calls : Runnable(i) => RunnableSince(i) >= now
    /\ now' = now + 1
    /\ UNCHANGED <<botvars, tradevars, monitorvars>>

InitConfirm ==
    /\ now = 0
    /\ USER_CONFIG = IdleConfig
    /\ task = IdleTask
    /\ runs = <<>>
    /\ sent = <<>>
    /\ ACTIVE_TRADES = <<>>
    /\ message_handler = IdleHandler @@ [binary_order_event |-> FALSE]
    /\ transport = <<>>
    /\ config = TradingConfig
    /\ monitor = <<>>
    /\ tasks = <<>>
    /\ \E n \in 1..MaxWaiters : \E f \in [1..n -> WaiterInputs] :
          /\ f[1] = ValidParams
          /\ calls = [k \in 1..n |-> ConfirmCall(f[k], 0)]

NextConfirm ==
    \/ \E i \in DOMAIN calls : LoopPass(i)
    \/ \E i \in DOMAIN calls : OpenEventArrives(i)
    \/ ConfirmTick

SpecConfirm == InitConfirm /\ [][NextConfirm]_vars

(***************************************************************************)
(* models.py, TradeOutcomeChecker: closed-trade messages are classified    *)
(* into TradeOutcome records.  The messages wait in calls; each call of    *)
(* check_trade_outcome processes one of them.                              *)
(***************************************************************************)
MaxMessages == 2

(* the fields of a closed-trade message that the classification reads:     *)
(* binary 'sum' and 'profit_amount', digital 'invest' and 'pnl_realized'   *)
BinaryMessages ==
    {[trade_type |-> "binary", invest |-> sm, profit_amount |-> pa,
      pnl_realized |-> 0] : sm \in {1, 2}, pa \in {0, 1, 2, 4}}

DigitalMessages ==
    {[trade_type |-> "digital", invest |-> inv, profit_amount |-> 0,
      pnl_realized |-> pl] : inv \in {1, 2}, pl \in {0 - 1, 0, 1}}

TradeMessages == BinaryMessages \cup DigitalMessages

NoOutcome ==
    [invest_amount |-> 0, pl_amount |-> 0, is_win |-> FALSE,
     is_loss |-> FALSE, is_breakeven |-> FALSE]

(* lines 132-152 *)
_process_binary_option_outcome(trade_message) ==
    LET invest_amount == trade_message.invest
        pl_amount == trade_message.profit_amount - invest_amount
    IN  [invest_amount |-> invest_amount, pl_amount |-> pl_amount,
         is_win |-> pl_amount > 0,
         is_loss |-> pl_amount < 0,
         is_breakeven |-> (pl_amount = invest_amount)]

(* lines 155-177 *)
_process_digital_option_outcome(trade_message) ==
    LET invest_amount == trade_message.invest
        pl_amount == trade_message.pnl_realized
    IN  [invest_amount |-> invest_amount, pl_amount |-> pl_amount,
         is_win |-> pl_amount > 0,
         is_loss |-> pl_amount < 0,
         is_breakeven |-> (pl_amount = 0)]

(* lines 97-120 *)
check_trade_outcome(i) ==
    /\ calls[i].kind = "check_trade_outcome"
    /\ calls[i].pc = "pending"
    /\ (i > 1 => calls[i - 1].pc = "processed")
    /\ LET trade_message == calls[i].trade_message
           outcome ==
              IF trade_message.trade_type = "binary"
              THEN _process_binary_option_outcome(trade_message)
              ELSE _process_digital_option_outcome(trade_message)
       IN  calls' = [calls EXCEPT ![i].pc = "processed",
                                  ![i].outcome = outcome]
    /\ UNCHANGED <<now, botvars, message_handler, transport, monitorvars>>

CheckerCall(trade_message) ==
    [kind |-> "check_trade_outcome", trade_message |-> trade_message,
     pc |-> "pending", outcome |-> NoOutcome]

InitChecker ==
    /\ now = 0
    /\ USER_CONFIG = IdleConfig
    /\ task = IdleTask
    /\ runs = <<>>
    /\ sent = <<>>
    /\ ACTIVE_TRADES = <<>>
    /\ message_handler = IdleHandler
    /\ config = TradingConfig
    /\ monitor = <<>>
    /\ tasks = <<>>
    /\ transport = <<>>
    /\ \E n \in 1..MaxMessages :
          \E msgs \in [1..n -> TradeMessages] :
             calls = [i \in 1..n |-> CheckerCall(msgs[i])]

NextChecker == \E i \in DOMAIN calls : check_trade_outcome(i)

SpecChecker == InitChecker /\ [][NextChecker]_vars

(***************************************************************************)
(* channel_monitor.py, ChannelMonitor._execute_signal: one call per signal *)
(* message of the channel; the calls of several messages overlap.          *)
(***************************************************************************)
MaxMonitorSignals == 2

MaxMonitorClock == 130

(* seconds from the arrival of the message to the signal's entry time *)
EntryOffsets == {0 - 5, 0, 5, 60}

ExecuteSignalCall(time) ==
    [time |-> time, pc |-> "check", delay |-> 0, started_at |-> 0 - 1]

(* lines 108-148: a signal message is parsed and handed to _execute_signal *)
_process_message ==
    /\ Len(monitor) < MaxMonitorSignals
    /\ \E off \in EntryOffsets :
          monitor' = Append(monitor, ExecuteSignalCall(now + off))
    /\ UNCHANGED <<now, botvars, tradevars, config, tasks>>

(* lines 174-190: after asyncio.sleep(delay) the trade is executed *)
AfterSleep(c, t) ==
    [c EXCEPT !.pc = "trading", !.delay = 0, !.started_at = t]

(* lines 158-172: the pause check, then the delay until the entry time *)
CheckPaused(i) ==
    /\ monitor[i].pc = "check"
    /\ LET c == monitor[i]
           delay == c.time - now
       IN  monitor' = [monitor EXCEPT ![i] =
              IF config.paused THEN [c EXCEPT !.pc = "skipped"]
              ELSE IF delay > 0 THEN [c EXCEPT !.pc = "sleep", !.delay = delay]
              ELSE [c EXCEPT !.pc = "trading", !.started_at = now]]
    /\ UNCHANGED <<now, botvars, tradevars, config, tasks>>

(* line 172: asyncio.sleep(delay) returns and run_trade is called *)
WakeExecute(i) ==
    /\ monitor[i].pc = "sleep"
    /\ \E d \in Delays :
          LET t == IF monitor[i].time + d > now THEN monitor[i].time + d
                   ELSE now
          IN  /\ t <= MaxMonitorClock
              /\ now' = t
              /\ monitor' = [monitor EXCEPT ![i] =
                                AfterSleep(monitor[i], t)]
    /\ UNCHANGED <<botvars, tradevars, config, tasks>>

(* lines 183-190: the awaited run_trade returns *)
MonitorTradeReturns(i) ==
    /\ monitor[i].pc = "trading"
    /\ monitor' = [monitor EXCEPT ![i].pc = "done"]
    /\ UNCHANGED <<now, botvars, tradevars, config, tasks>>

(* the stop request: config.paused is set or cleared *)
SetPaused(paused) ==
    /\ config.paused # paused
    /\ config' = [config EXCEPT !.paused = paused]
    /\ UNCHANGED <<now, botvars, tradevars, monitor, tasks>>

InitMonitor ==
    /\ now = 0
    /\ USER_CONFIG = IdleConfig
    /\ task = IdleTask
    /\ runs = <<>>
    /\ sent = <<>>
    /\ ACTIVE_TRADES = <<>>
    /\ message_handler = IdleHandler
    /\ calls = <<>>
    /\ transport = <<>>
    /\ config = TradingConfig
    /\ monitor = <<>>
    /\ tasks = <<>>

NextMonitor ==
    \/ _process_message
    \/ \E i \in DOMAIN monitor : CheckPaused(i)
    \/ \E i \in DOMAIN monitor : WakeExecute(i)
    \/ \E i \in DOMAIN monitor : MonitorTradeReturns(i)
    \/ \E paused \in BOOLEAN : SetPaused(paused)

SpecMonitor == InitMonitor /\ [][NextMonitor]_vars

(***************************************************************************)
(* utilities.py, parse_standard_signal: the HH:MM of a standard signal is  *)
(* read as a wall time of the source zone and converted to the system      *)
(* zone.  A datetime is a wall time in minutes since day 0 together with   *)
(* the UTC offset of its zone in minutes.                                  *)
(***************************************************************************)
(* line 115 *)
STANDARD_SIGNAL_OFFSET == 0 - 3

(* settings.TIMEZONE_OFFSET, in hours *)
TimezoneOffsets == {0 - 5, 0, 1, 3}

(* the hours and minutes the patterns of lines 87-89 let through *)
SignalHours == {0, 12, 20, 23, 24}

SignalMinutes == {0, 30, 59}

(* the UTC instants at which a signal is parsed, in minutes since day 0:    *)
(* 02:30 and 23:30 UTC of day 1                                             *)
ParseInstants == {1440 + 150, 1440 + 1410}

timezone(hours) == hours * 60

(* line 121: datetime.now(source_tz) *)
datetime_now(utc_instant, tz) == [wall |-> utc_instant + tz, tz |-> tz]

(* line 122: .date() *)
date(dt) == dt.wall \div 1440

hour(dt) == (dt.wall \div 60) % 24

minute(dt) == dt.wall % 60

(* the UTC instant a datetime denotes *)
utc(dt) == dt.wall - dt.tz

(* variant: the zone is replaced and the wall time kept *)
astimezone_KeepWall(dt, tz) == [wall |-> dt.wall, tz |-> tz]

(* line 130: astimezone keeps the instant and changes the wall time *)
astimezone(dt, tz) == [wall |-> utc(dt) + tz, tz |-> tz]

NoDatetime == [wall |-> 0, tz |-> 0]

(* lines 94-142 *)
parse_standard_signal(hh, mm, utc_instant, TIMEZONE_OFFSET) ==
    LET source_tz == timezone(STANDARD_SIGNAL_OFFSET)
        system_tz == timezone(TIMEZONE_OFFSET)
        now_source == datetime_now(utc_instant, source_tz)
        target_date == date(now_source)
        scheduled_dt_source ==
            [wall |-> target_date * 1440 + hh * 60 + mm, tz |-> source_tz]
    IN  IF hh > 23 \/ mm > 59
        THEN [raised |-> "ValueError", time |-> NoDatetime]
        ELSE [raised |-> "none",
              time |-> astimezone(scheduled_dt_source, system_tz)]

ParseCall(hh, mm, utc_instant, TIMEZONE_OFFSET) ==
    [kind |-> "parse_standard_signal", hh |-> hh, mm |-> mm,
     utc_instant |-> utc_instant, TIMEZONE_OFFSET |-> TIMEZONE_OFFSET,
     pc |-> "called", result |-> [raised |-> "none", time |-> NoDatetime]]

ParseReturns(i) ==
    /\ calls[i].kind = "parse_standard_signal"
    /\ calls[i].pc = "called"
    /\ LET c == calls[i]
       IN  calls' = [calls EXCEPT ![i].pc = "returned",
                        ![i].result =
                            parse_standard_signal(c.hh, c.mm, c.utc_instant,
                                                  c.TIMEZONE_OFFSET)]
    /\ UNCHANGED <<now, botvars, message_handler, transport, monitorvars>>

InitParse ==
    /\ now = 0
    /\ USER_CONFIG = IdleConfig
    /\ task = IdleTask
    /\ runs = <<>>
    /\ sent = <<>>
    /\ ACTIVE_TRADES = <<>>
    /\ message_handler = IdleHandler
    /\ transport = <<>>
    /\ config = TradingConfig
    /\ monitor = <<>>
    /\ tasks = <<>>
    /\ \E hh \in SignalHours, mm \in SignalMinutes,
          utc_instant \in ParseInstants, offset \in TimezoneOffsets :
          calls = <<ParseCall(hh, mm, utc_instant, offset)>>

NextParse == \E i \in DOMAIN calls : ParseReturns(i)

SpecParse == InitParse /\ [][NextParse]_vars

(***************************************************************************)
(* utilities.py: get_expiry_timestamp and get_remaining_secs.  Times are   *)
(* in milliseconds: an instant is milliseconds since the epoch, a wall     *)
(* time is the naive local datetime counted the same way.  datetime        *)
(* .fromtimestamp and .timestamp() of a naive datetime go through the      *)
(* machine's local zone, which here has one transition: the utc offset is  *)
(* `before` up to the instant `at` and `after` from then on.               *)
(***************************************************************************)
MaxExpiry == 3

SECOND == 1000
MINUTE == 60 * SECOND
HOUR == 60 * MINUTE

(* line 37 *)
min_time_needed == 31 * SECOND

TransitionAt == 4 * HOUR

(* local zones: two without a transition, one that ends and one that       *)
(* starts daylight saving time at TransitionAt                             *)
LocalZones ==
    {[before |-> 0, after |-> 0, at |-> TransitionAt],
     [before |-> (0 - 3) * HOUR, after |-> (0 - 3) * HOUR, at |-> TransitionAt],
     [before |-> 2 * HOUR, after |-> HOUR, at |-> TransitionAt],
     [before |-> HOUR, after |-> 2 * HOUR, at |-> TransitionAt]}

(* the server times tried: minutes around the transition, and within the   *)
(* minute both sides of the 31 s lead                                      *)
ServerMinutes ==
    {TransitionAt + m * MINUTE : m \in {0 - 2, 0 - 1, 0, 1, 30, 59, 60}}

ServerMillis == {0, 28999, 29000, 29001, 59999}

ServerTimes == {m + ms : m \in ServerMinutes, ms \in ServerMillis}

(* line 39: datetime.fromtimestamp(timestamp), the local wall time *)
fromtimestamp(zone, instant) ==
    instant + (IF instant < zone.at THEN zone.before ELSE zone.after)

(* line 40: replace(second=0, microsecond=0) *)
replace_second_0(wall) == wall - (wall % MINUTE)

(* lines 43, 48 and 53: .timestamp() of a naive datetime that comes out of *)
(* an addition (fold = 0): a wall time that occurs twice is the first      *)
(* occurrence, one that never occurs is read with the offset before the    *)
(* transition                                                              *)
timestamp(zone, wall) ==
    IF wall - zone.before < zone.at THEN wall - zone.before
    ELSE IF wall - zone.after >= zone.at THEN wall - zone.after
    ELSE wall - zone.before

(* lines 35-53; both branches of `if expiry == 1` compute the same *)
get_expiry_timestamp(zone, timestamp_ms, expiry) ==
    LET now_date_hm == replace_second_0(fromtimestamp(zone, timestamp_ms))
        time_until_expiry ==
            timestamp(zone, now_date_hm + MINUTE) - timestamp_ms
    IN  IF time_until_expiry >= min_time_needed
        THEN timestamp(zone, now_date_hm + expiry * MINUTE)
        ELSE timestamp(zone, now_date_hm + (expiry + 1) * MINUTE)

(* lines 67-70: expiry_ts - int(timestamp/1000) *)
get_remaining_secs(zone, timestamp_ms, duration) ==
    get_expiry_timestamp(zone, timestamp_ms, duration)
        - (timestamp_ms \div SECOND) * SECOND

ExpiryCall(zone, timestamp_ms, expiry) ==
    [kind |-> "get_remaining_secs", zone |-> zone, timestamp |-> timestamp_ms,
     expiry |-> expiry, pc |-> "called", expiry_ts |-> 0, remaining |-> 0]

ExpiryReturns(i) ==
    /\ calls[i].kind = "get_remaining_secs"
    /\ calls[i].pc = "called"
    /\ LET c == calls[i]
       IN  calls' = [calls EXCEPT ![i].pc = "returned",
                        ![i].expiry_ts =
                            get_expiry_timestamp(c.zone, c.timestamp,
                                                 c.expiry),
                        ![i].remaining =
                            get_remaining_secs(c.zone, c.timestamp,
                                               c.expiry)]
    /\ UNCHANGED <<now, botvars, message_handler, transport, monitorvars>>

InitExpiry ==
    /\ now = 0
    /\ USER_CONFIG = IdleConfig
    /\ task = IdleTask
    /\ runs = <<>>
    /\ sent = <<>>
    /\ ACTIVE_TRADES = <<>>
    /\ message_handler = IdleHandler
    /\ transport = <<>>
    /\ config = TradingConfig
    /\ monitor = <<>>
    /\ tasks = <<>>
    /\ \E zone \in LocalZones, timestamp_ms \in ServerTimes,
          expiry \in 1..MaxExpiry :
          calls = <<ExpiryCall(zone, timestamp_ms, expiry)>>

NextExpiry == \E i \in DOMAIN calls : ExpiryReturns(i)

SpecExpiry == InitExpiry /\ [][NextExpiry]_vars

(***************************************************************************)
(* telegram_bot.py: every signal message (handle_message, line 527) and    *)
(* every batch flush (flush_batch, lines 886-888) starts its own           *)
(* process_signals_task on the one event loop; all of them use the global  *)
(* USER_CONFIG.  A task is reduced to the steps of a bucket that touch     *)
(* collective_multiplier; it can be suspended at every await.              *)
(***************************************************************************)
MaxTasks == 2

MaxBuckets == 2

MaxMultiplier == 8

SchedulingTask(n) ==
    [pc |-> "loop", buckets |-> n, ki |-> 1, multiplier_read |-> 0,
     current_amount |-> 0, results |-> <<>>, batch_win |-> FALSE]

(* lines 525-527 and 886-888: asyncio.create_task(process_signals_task(..)) *)
create_task ==
    /\ Len(tasks) < MaxTasks
    /\ \E n \in 1..MaxBuckets : tasks' = Append(tasks, SchedulingTask(n))
    /\ UNCHANGED <<now, botvars, tradevars, config, monitor>>

(* lines 656-730: the bucket is dropped as stale or nothing of it is        *)
(* verified, or the loop ends                                               *)
TaskSkip(t) ==
    /\ tasks[t].pc = "loop"
    /\ tasks' = [tasks EXCEPT ![t] =
          IF tasks[t].ki > tasks[t].buckets THEN [@ EXCEPT !.pc = "done"]
          ELSE [@ EXCEPT !.ki = @ + 1]]
    /\ UNCHANGED <<now, botvars, tradevars, config, monitor>>

(* lines 732-754: the stake is read from USER_CONFIG and the trades start   *)
TaskFire(t) ==
    /\ tasks[t].pc = "loop"
    /\ tasks[t].ki <= tasks[t].buckets
    /\ tasks' = [tasks EXCEPT ![t] =
          [@ EXCEPT !.pc = "gather",
                    !.multiplier_read = USER_CONFIG.collective_multiplier,
                    !.current_amount =
                        USER_CONFIG.amount * USER_CONFIG.collective_multiplier]]
    /\ UNCHANGED <<now, botvars, tradevars, config, monitor>>

(* lines 744-764: gather returns; in COLLECTIVE mode line 759 is evaluated  *)
TaskJoin(t) ==
    /\ tasks[t].pc = "gather"
    /\ \E res \in {WinResult(1, 0),
                   ExhaustedResult(tasks[t].current_amount,
                                   USER_CONFIG.max_gales)} :
          LET results == <<res>>
          IN  tasks' = [tasks EXCEPT ![t] =
                 IF USER_CONFIG.mode = "COLLECTIVE"
                       /\ AnyResPositive(results) = "TypeError"
                 THEN [@ EXCEPT !.pc = "crashed", !.results = results]
                 ELSE [@ EXCEPT !.pc = "report", !.results = results]]
    /\ UNCHANGED <<now, botvars, tradevars, config, monitor>>

(* lines 766-776: the result messages and the summary are awaited *)
TaskReport(t) ==
    /\ tasks[t].pc = "report"
    /\ tasks' = [tasks EXCEPT ![t] =
          [@ EXCEPT !.pc = "update",
                    !.batch_win = \E k \in DOMAIN tasks[t].results :
                                     tasks[t].results[k].success]]
    /\ UNCHANGED <<now, botvars, tradevars, config, monitor>>

(* lines 778-786: the multiplier update after the join *)
TaskUpdate(t) ==
    /\ tasks[t].pc = "update"
    /\ IF USER_CONFIG.mode = "COLLECTIVE"
       THEN IF tasks[t].batch_win
            THEN USER_CONFIG' = [USER_CONFIG EXCEPT !.collective_multiplier = 1]
            ELSE /\ USER_CONFIG.collective_multiplier * 2 <= MaxMultiplier
                 /\ USER_CONFIG' =
                       [USER_CONFIG EXCEPT !.collective_multiplier = @ * 2]
       ELSE UNCHANGED USER_CONFIG
    /\ tasks' = [tasks EXCEPT ![t] =
          [@ EXCEPT !.pc = "loop", !.ki = @ + 1, !.results = <<>>,
                    !.batch_win = FALSE, !.multiplier_read = 0,
                    !.current_amount = 0]]
    /\ UNCHANGED <<now, task, runs, sent, ACTIVE_TRADES, tradevars, config,
                   monitor>>

InitTasks ==
    /\ now = 0
    /\ USER_CONFIG = IdleConfig
    /\ task = IdleTask
    /\ runs = <<>>
    /\ sent = <<>>
    /\ ACTIVE_TRADES = <<>>
    /\ message_handler = IdleHandler
    /\ calls = <<>>
    /\ transport = <<>>
    /\ config = TradingConfig
    /\ monitor = <<>>
    /\ tasks = <<>>

NextTasks ==
    \/ create_task
    \/ \E t \in DOMAIN tasks : TaskSkip(t)
    \/ \E t \in DOMAIN tasks : TaskFire(t)
    \/ \E t \in DOMAIN tasks : TaskJoin(t)
    \/ \E t \in DOMAIN tasks : TaskReport(t)
    \/ \E t \in DOMAIN tasks : TaskUpdate(t)
    \/ \E mode \in Modes : SetMode(mode)

SpecTasks == InitTasks /\ [][NextTasks]_vars

(***************************************************************************)
(* Properties of run_trade, checked under SpecRun.                         *)
(***************************************************************************)
RECURSIVE Pow(_, _)
Pow(b, e) == IF e = 0 THEN 1 ELSE b * Pow(b, e - 1)

Last(seq) == seq[Len(seq)]

(* C1: the k-th placement attempt (k = 0, 1, ...) of a run stakes           *)
(* amount * 2^k (2 is the only multiplier run_trade knows), and a run       *)
(* makes at most max_gales + 1 placement attempts.                          *)
C1_StakeSequence ==
    \A k \in DOMAIN runs :
        LET r == runs[k] IN
        /\ Len(r.stakes) <= r.max_gales + 1
        /\ \A j \in 1..Len(r.stakes) :
              r.stakes[j] = r.amount * Pow(MARTINGALE_MULTIPLIER, j - 1)

C1_Witness ==
    \E k \in DOMAIN runs :
        /\ runs[k].max_gales = 2
        /\ runs[k].amount = 3
        /\ runs[k].stakes = <<3, 6, 12>>
        /\ runs[k].pc = "done"

(* C3: an attempt whose outcome has pnl > 0 ends the run at once: the       *)
(* result is a success carrying that attempt's pnl and gale index, and no   *)
(* step of the run follows it.                                              *)
C3_WinState ==
    \A k \in DOMAIN runs :
        LET r == runs[k] IN
        (r.last.kind = "win" \/ r.last.pl > 0) =>
            /\ r.pc = "done"
            /\ r.result.success
            /\ r.result.has_pnl
            /\ r.result.pnl = r.last.pl
            /\ r.result.gale = Len(r.stakes) - 1

C3_WinStops ==
    /\ []C3_WinState
    /\ [][\A k \in DOMAIN runs :
            runs[k].last.kind = "win" => runs'[k] = runs[k]]_vars

C3_Witness ==
    \E k \in DOMAIN runs :
        /\ runs[k].pc = "done"
        /\ runs[k].max_gales = 2
        /\ runs[k].stakes = <<1, 2>>
        /\ runs[k].last = Event("win", 2)
        /\ runs[k].result.gale = 1

(* C4: when all max_gales + 1 attempts lose, the terminal result reports    *)
(* a loss equal to the stake of the final attempt.                          *)
C4_ExhaustedReportsFinalStake ==
    \A k \in DOMAIN runs :
        LET r == runs[k] IN
        (r.pc = "done" /\ r.result.message = "LOSS") =>
            /\ r.result.has_pnl
            /\ r.result.pnl = 0 - Last(r.stakes)

C5_FailureState ==
    \A k \in DOMAIN runs :
        LET r == runs[k] IN
        r.last.kind \in PlaceFailureKinds =>
            /\ r.pc = "done"
            /\ r.current_amount = Last(r.stakes)
            /\ ~r.result.success
            /\ ~r.result.has_pnl
            /\ r.result.message = "Failed to place trade"
            /\ r.result.reason = r.last.kind

C6_TimeoutState ==
    \A k \in DOMAIN runs :
        LET r == runs[k] IN
        r.last.kind = "outcome_timeout" =>
            /\ r.result.reason # "outcome_timeout"
            /\ r.pc = "place" =>
                  /\ r.gale = Len(r.stakes)
                  /\ r.gale <= r.max_gales
                  /\ r.current_amount = 2 * Last(r.stakes)
            /\ r.pc = "outcome" =>
                  /\ Len(r.stakes) = r.gale + 1
                  /\ r.stakes[r.gale + 1] = 2 * r.stakes[r.gale]
            /\ r.pc = "done" =>
                  /\ Len(r.stakes) = r.max_gales + 1
                  /\ r.result.message = "LOSS"
                  /\ ~r.result.success

Ingested == task.pc \notin {"none", "ingest"}

SeqRange(seq) == {seq[i] : i \in DOMAIN seq}

(* the loop head acts on the bucket keys[ki] *)
AtBucketHead == task.pc = "loop" /\ task.ki <= Len(task.keys) /\ task' # task

(* it dropped that bucket as stale and said so *)
DroppedStale ==
    /\ task'.pc = "loop"
    /\ task'.ki = task.ki + 1
    /\ sent' = <<Msg("STALE", sched_time, 0 - VerifyDelay(sched_time, now), 0)>>

(* a bucket ends: the task dies in the first multiplier update, or the      *)
(* second one is done                                                       *)
BucketEnds ==
    \/ task.pc = "gather" /\ task'.pc = "crashed"
    \/ task.pc = "update" /\ task'.pc = "loop"

BucketWon ==
    IF task.pc = "gather"
    THEN \E k \in DOMAIN runs : runs[k].result.success
    ELSE \E k \in DOMAIN task.results : task.results[k].success

(* C2: in collective mode, when a bucket ends the shared multiplier is 1    *)
(* if a signal of the bucket won and twice the multiplier the bucket was    *)
(* fired with if none won.                                                  *)
C2_CollectiveMultiplier ==
    [][(BucketEnds /\ task.mode_at_fire = "COLLECTIVE"
            /\ USER_CONFIG.mode = "COLLECTIVE"
            /\ USER_CONFIG.collective_multiplier = task.multiplier_read)
        => USER_CONFIG'.collective_multiplier =
              IF BucketWon THEN 1 ELSE 2 * task.multiplier_read]_vars

(* C7: a signal scheduled more than 60 s before the clock value read at     *)
(* ingestion is never verified and never placed, and the drop is reported   *)
(* with the number of dropped signals; a signal at most 60 s in the past    *)
(* is kept in its bucket.                                                   *)
C7_IngestionFilter ==
    Ingested =>
        LET late == {i \in DOMAIN task.signals :
                        task.current_time - task.signals[i].time > 60}
        IN  /\ \A i \in DOMAIN task.signals :
                 LET s == task.signals[i] IN
                 IF i \in late
                 THEN /\ s.id \notin task.checked
                      /\ s.id \notin task.placed
                      /\ s \notin SeqRange(task.valid_signals)
                      /\ s.time \notin DOMAIN task.grouped
                 ELSE /\ s.time \in DOMAIN task.grouped
                      /\ s \in SeqRange(task.grouped[s.time])
            /\ (task.pc = "loop" /\ task.ki = 1) =>
                 /\ late # {} =>
                       sent[Len(sent)] =
                           Msg("Dropped stale signals", Cardinality(late), 0, 0)
                 /\ late = {} => \A m \in DOMAIN sent :
                                    sent[m].kind # "Dropped stale signals"

C7_Witness ==
    /\ task.pc = "gather"
    /\ task.current_time = 0
    /\ \E i, j \in DOMAIN task.signals :
          /\ task.signals[i].time = 0 - 61
          /\ task.signals[j].time = 0 - 60
          /\ task.signals[j].id \in task.placed

(* C8 as stated: the bucket is dropped as stale exactly when its scheduled  *)
(* instant is more than 300 s in the past.                                  *)
C8_StaleAfter300 ==
    [][AtBucketHead => (DroppedStale <=> now - sched_time > 300)]_vars

(* C8 amended: the bucket is dropped and reported stale exactly when its    *)
(* verification point (scheduled instant - 10 s) is more than 300 s in the  *)
(* past, i.e. the scheduled instant more than 290 s; otherwise it goes on   *)
(* to verification; no signal of a dropped bucket is verified or placed.    *)
C8_DroppedNeverPlaced ==
    \A i \in DOMAIN task.signals :
        task.signals[i].time \in task.stale_dropped =>
            /\ task.signals[i].id \notin task.placed
            /\ task.signals[i].id \notin task.checked

C8_StaleAfterVerificationPoint ==
    /\ []C8_DroppedNeverPlaced
    /\ [][AtBucketHead =>
            /\ DroppedStale <=> now - sched_time > 290
            /\ ~DroppedStale => /\ task'.pc \in {"verify", "sleep_verify"}
                                /\ task'.ki = task.ki]_vars

C8_Witness ==
    /\ task.stale_dropped = {20}
    /\ now = 311
    /\ sent = <<Msg("STALE", 20, 301, 0)>>

(* C9: a bucket is fired, and with it the first placement of each of its    *)
(* signals started, at a clock value >= the bucket's scheduled instant.     *)
C9_NeverEarly ==
    /\ task.pc = "fire" => now >= sched_time
    /\ task.pc = "gather" =>
          /\ task.fired_at >= sched_time
          /\ now >= task.fired_at
          /\ DOMAIN runs = DOMAIN task.verified_signals

C9_Witness ==
    /\ task.pc = "gather"
    /\ sched_time = 20
    /\ task.fired_at = 20
    /\ \E k \in DOMAIN runs : runs[k].pc = "done"

(* C10: buckets are processed in increasing order of scheduled instant      *)
(* and the signals of a bucket keep the order they had in the input.        *)
C10_Ordered ==
    /\ \A i, j \in DOMAIN task.keys : i < j => task.keys[i] < task.keys[j]
    /\ \A t \in DOMAIN task.grouped :
          \A i, j \in DOMAIN task.grouped[t] :
              i < j => task.grouped[t][i].id < task.grouped[t][j].id
    /\ \A i, j \in DOMAIN task.verified_signals :
          i < j => task.verified_signals[i].id < task.verified_signals[j].id
    /\ task.pc \in {"verify", "sleep_fire", "fire", "gather"} =>
          \A k \in DOMAIN task.verified_signals :
              task.verified_signals[k].time = sched_time

C10_InOrder ==
    /\ []C10_Ordered
    /\ [][Ingested => /\ task'.keys = task.keys
                      /\ task'.grouped = task.grouped
                      /\ task'.ki \in {task.ki, task.ki + 1}]_vars

C10_Witness ==
    /\ task.pc = "gather"
    /\ task.ki = 2
    /\ task.keys = <<0 - 60, 20>>
    /\ task.verified_signals = <<[id |-> 1, time |-> 20]>>

(* the task is inside the loop body for the bucket keys[ki] *)
InBucket ==
    task.pc \in {"verify", "sleep_fire", "fire", "gather", "report",
                 "update", "crashed"}

Verified == task.pc \in {"sleep_fire", "fire", "gather", "report",
                         "update", "crashed"}

Count(seq, m) == Cardinality({k \in DOMAIN seq : seq[k] = m})

(* C11: every signal of the bucket is re-checked before the bucket is       *)
(* fired; a signal reported unavailable is never placed and has exactly     *)
(* one drop report; a signal that was neither unavailable nor skipped by    *)
(* the filter stays in the bucket; a bucket with no surviving signal        *)
(* fires nothing.                                                           *)
C11_Verification ==
    /\ task.unavailable \cap task.placed = {}
    /\ task.placed \subseteq task.checked
    /\ InBucket =>
        \A k \in DOMAIN batch_signals :
            LET sig == batch_signals[k]
                drop == Msg("SKIP unavailable", sig.id, sched_time, 0)
                skip == Msg("TA Filter SKIP", sig.id, 0, 0)
            IN  /\ sig.id \in task.checked <=> k < task.vi
                /\ sig.id \in task.unavailable =>
                      /\ Count(sent, drop) = 1
                      /\ sig \notin SeqRange(task.verified_signals)
                /\ sig.id \in task.checked \ task.unavailable =>
                      /\ Count(sent, drop) = 0
                      /\ Count(sent, skip) = 0 =>
                            sig \in SeqRange(task.verified_signals)
    /\ Verified => /\ task.vi = Len(batch_signals) + 1
                   /\ task.verified_signals # <<>>
    /\ runs # <<>> => task.pc = "gather"

C11_VerifiedOnly ==
    /\ []C11_Verification
    /\ [][/\ (task.pc = "verify" /\ task'.pc = "loop") =>
                /\ task'.placed = task.placed
                /\ runs' = <<>>
                /\ \A k \in DOMAIN batch_signals :
                      batch_signals[k].id \notin task'.placed
          /\ task'.placed # task.placed =>
                task'.placed \ task.placed =
                    {task.verified_signals[k].id :
                        k \in DOMAIN task.verified_signals}]_vars

C11_Witness ==
    /\ task.pc = "gather"
    /\ Len(batch_signals) = 2
    /\ task.unavailable = {batch_signals[1].id}
    /\ task.placed = {batch_signals[2].id}
    /\ sent = <<Msg("SKIP unavailable", batch_signals[1].id, sched_time, 0),
                Msg("Executing", 1, 0, 0)>>
    /\ \E k \in DOMAIN runs : runs[k].pc = "done"

C13_MultiplierFloor == USER_CONFIG.collective_multiplier >= 1

C13_SwitchResets ==
    /\ []C13_MultiplierFloor
    /\ [][USER_CONFIG'.mode # USER_CONFIG.mode =>
             /\ USER_CONFIG'.collective_multiplier = 1
             /\ USER_CONFIG'.mode \in Modes
             /\ UNCHANGED <<task, runs>>]_vars

(* a bucket fired with multiplier 2 is still running and the mode has been  *)
(* switched since                                                           *)
C13_Witness ==
    /\ task.pc = "gather"
    /\ task.mode_at_fire = "COLLECTIVE"
    /\ task.multiplier_read = 2
    /\ USER_CONFIG.mode = "INDIVIDUAL"
    /\ USER_CONFIG.collective_multiplier = 1

(***************************************************************************)
(* Properties of the placement calls, checked under SpecPlace.             *)
(***************************************************************************)
PlaceCalls == {i \in DOMAIN calls : calls[i].kind = "place"}

SentBy(i) == {m \in DOMAIN transport : transport[m].call = i}

SlotsOf(i) ==
    {r \in DOMAIN message_handler.pending_digital_orders :
        message_handler.pending_digital_orders[r] = i}

(* C14: a placement call with an empty asset, a stake below 1, a direction *)
(* other than call/put (in any letter case) or an expiry that is not a     *)
(* positive integer has returned a validation failure at the instant it    *)
(* was called, has sent nothing and holds no pending slot.                 *)
C14_InvalidFailsFast ==
    \A i \in PlaceCalls :
        LET p == calls[i].params IN
        (\/ p.asset = ""
         \/ p.amount < DOLLAR
         \/ Lower(p.direction) \notin {"call", "put"}
         \/ ~p.expiry.is_int
         \/ p.expiry.value <= 0)
        => /\ calls[i].pc = "returned"
           /\ ~calls[i].result.success
           /\ calls[i].result.reason \in ValidationReasons
           /\ calls[i].returned_at = calls[i].called_at
           /\ SentBy(i) = {}
           /\ SlotsOf(i) = {}

(* an invalid call was made while a valid one is waiting with its slot     *)
C14_Witness ==
    /\ Len(calls) = 2
    /\ calls[1].pc = "wait"
    /\ calls[1].family = "digital"
    /\ SlotsOf(1) # {}
    /\ calls[2].params.expiry = [is_int |-> FALSE, value |-> 1]
    /\ calls[2].result = PlaceFailure("Expiry must be positive integer")
    /\ Len(transport) = 1

(* what the call saw of its own confirmation before it returned: the       *)
(* result of its future (digital), the matching open events (binary)       *)
ConfirmedAt(c) ==
    IF c.family = "digital"
    THEN IF c.future.state = "done" /\ c.future.ok THEN {c.future.at} ELSE {}
    ELSE {message_handler.recent_binary_opens[k].created_at :
              k \in MatchingOpens(c)}

Rejected(c) ==
    c.family = "digital" /\ c.future.state = "done" /\ ~c.future.ok

OutcomeCalls == {i \in DOMAIN calls : calls[i].kind = "outcome"}

(* C16: the outcome wait returns success only when the cache shows the      *)
(* order closed, before the ceiling of (remaining seconds + 3 s) fixed at   *)
(* the call; otherwise it returns (False, None), not before the ceiling     *)
(* is reached; and it always returns.                                       *)
C16_Returned ==
    \A i \in OutcomeCalls :
        LET c == calls[i]
            waited == c.returned_at - c.called_at
        IN  c.pc = "returned" =>
              /\ c.result.success =>
                    /\ ~c.result.is_none
                    /\ waited < (c.timeout + 3) * 2
              /\ ~c.result.success =>
                    /\ c.result = OutcomeTimedOut
                    /\ waited >= (c.timeout + 3) * 2

C16_OutcomeWait ==
    /\ []C16_Returned
    /\ [][\A i \in OutcomeCalls :
            (calls[i].pc # "returned" /\ calls'[i].pc = "returned"
                /\ calls'[i].result.success) =>
               LET order_data == message_handler.position_info[OrderId]
               IN  /\ OrderId \in DOMAIN message_handler.position_info
                   /\ \/ order_data.status = "closed"
                      \/ calls[i].family = "binary"
                            /\ order_data.close_time # 0]_vars
    /\ <>(\A i \in OutcomeCalls : calls[i].pc = "returned")

(* the order closed inside the last half second and the wait timed out      *)
C16_Witness ==
    /\ calls[1].kind = "outcome"
    /\ calls[1].family = "digital"
    /\ calls[1].timeout = 31
    /\ calls[1].result = OutcomeTimedOut
    /\ calls[1].returned_at = 68
    /\ CachedOrder(OrderId) # <<>>
    /\ CachedOrder(OrderId).status = "closed"

(***************************************************************************)
(* Properties of the outcome classification, checked under SpecChecker.    *)
(***************************************************************************)
Processed ==
    {i \in DOMAIN calls :
        calls[i].kind = "check_trade_outcome" /\ calls[i].pc = "processed"}

Flags(o) ==
    Cardinality({f \in {"is_win", "is_loss", "is_breakeven"} : o[f]})

(* C17: every TradeOutcome built has is_win = (pl_amount > 0),              *)
(* is_loss = (pl_amount < 0) and exactly one of is_win, is_loss,            *)
(* is_breakeven true, for both families.                                    *)
C17_Classification ==
    \A i \in Processed :
        LET o == calls[i].outcome
        IN  /\ o.is_win = (o.pl_amount > 0)
            /\ o.is_loss = (o.pl_amount < 0)
            /\ Flags(o) = 1

(* C18: given that every placement wait and every outcome wait returns,     *)
(* run_trade returns a terminal result (win, exhausted loss, or error)      *)
(* after at most max_gales + 1 attempts.                                    *)
C18_Bounded ==
    \A k \in DOMAIN runs :
        /\ Len(runs[k].stakes) <= runs[k].max_gales + 1
        /\ runs[k].pc = "done" =>
              /\ runs[k].result # NoResult
              /\ Len(runs[k].stakes) >= 1
              /\ \/ runs[k].result.success
                    /\ runs[k].result.message \in {"WIN", "WIN after Gale"}
                 \/ ~runs[k].result.success
                    /\ runs[k].result.message
                          \in {"LOSS", "Error", "Failed to place trade"}

C18_Terminates ==
    /\ []C18_Bounded
    /\ <>(\A k \in DOMAIN runs : runs[k].pc = "done")

(* a run that used every attempt it was allowed *)
C18_Witness ==
    \E k \in DOMAIN runs :
        /\ runs[k].pc = "done"
        /\ runs[k].max_gales = MaxGales
        /\ Len(runs[k].stakes) = MaxGales + 1
        /\ runs[k].result.message = "LOSS"

(***************************************************************************)
(* Properties of the bucket summary, checked under Spec.                   *)
(***************************************************************************)
IsSummary(m) == m.kind = "Batch Summary"

SummarySent ==
    /\ Len(sent') > Len(sent)
    /\ IsSummary(sent'[Len(sent')])

RECURSIVE SumOfPnl(_)
SumOfPnl(msgs) ==
    IF msgs = <<>> THEN 0
    ELSE msgs[1].b + SumOfPnl(Tail(msgs))

(* C19: the bucket summary is produced only after every signal fired in     *)
(* the bucket has returned its terminal result; its wins and losses add     *)
(* up to the number of signals fired and its net P&L is the sum of the      *)
(* terminal pnl of those signals.                                           *)
C19_SummaryStep ==
    SummarySent =>
        LET fired == Len(task.verified_signals)
            summary == sent'[Len(sent')]
            per == SubSeq(sent', Len(sent) + 1, Len(sent') - 1)
            won == {k \in DOMAIN per : per[k].kind \in {"WIN", "WIN after Gale"}}
        IN  /\ runs = <<>>
            /\ Len(task.results) = fired
            /\ \A k \in DOMAIN task.results : task.results[k] # NoResult
            /\ Len(per) = fired
            /\ \A k \in DOMAIN per : per[k].a = task.verified_signals[k].id
            /\ summary.a = fired
            /\ summary.b = Cardinality(won)
            /\ summary.b + summary.losses = fired
            /\ summary.c = SumOfPnl(per)

C19_Summary ==
    /\ [][C19_SummaryStep]_vars
    /\ [](task.pc \in {"fire", "gather"} =>
             \A i \in DOMAIN sent : ~IsSummary(sent[i]))

(* two signals of one bucket, one won at gale 0 and one at gale 1 *)
C19_Witness ==
    /\ Len(sent) >= 3
    /\ LET n == Len(sent)
       IN  /\ IsSummary(sent[n])
           /\ sent[n].a = 2
           /\ sent[n].b = 2
           /\ sent[n].losses = 0
           /\ sent[n - 2].kind = "WIN"
           /\ sent[n - 1].kind = "WIN after Gale"
           /\ sent[n - 1].c = 1
           /\ sent[n].c = sent[n - 2].b + sent[n - 1].b
           /\ sent[n].c > 0

(***************************************************************************)
(* Properties of the reports, checked under SpecTaskFair.                  *)
(***************************************************************************)
(* signal i has just been handed over: nothing about it was sent yet *)
Handed(i) ==
    task.pc = "ingest" /\ \E k \in DOMAIN task.signals : task.signals[k].id = i

SignalTime(i) ==
    LET k == CHOOSE k \in DOMAIN task.signals : task.signals[k].id = i
    IN  task.signals[k].time

ResultKinds == {"WIN", "WIN after Gale", "LOSS", "Error", "Failed to place trade"}

(* a terminal report about signal i is among the messages sent *)
Reported(i) ==
    \E k \in DOMAIN sent :
        LET m == sent[k]
        IN  \/ /\ m.kind = "Dropped stale signals"
               /\ \A j \in DOMAIN task.valid_signals :
                     task.valid_signals[j].id # i
            \/ m.kind = "STALE" /\ m.a = SignalTime(i)
            \/ m.kind \in {"SKIP unavailable", "TA Filter SKIP"} /\ m.a = i
            \/ /\ m.kind \in ResultKinds
               /\ m.a = i
               /\ \E k2 \in DOMAIN sent : k2 > k /\ IsSummary(sent[k2])

(* C20: every signal handed to the scheduler eventually produces a visible  *)
(* terminal report: a stale-drop, unavailable-instrument or filter-skip     *)
(* report, or its result message followed by the bucket summary; in         *)
(* independent and in collective mode, for every bucket.                    *)
C20_EveryReported ==
    \A i \in 1..MaxSignals : [](Handed(i) => <>Reported(i))

(* in individual mode every signal handed over is reported *)
C20_IndividualReported ==
    \A i \in 1..MaxSignals :
        []((Handed(i) /\ USER_CONFIG.mode = "INDIVIDUAL") => <>Reported(i))

(***************************************************************************)
(* Properties of the stop request, checked under SpecMonitor.              *)
(***************************************************************************)
NotStarted(c) == c.pc \in {"check", "sleep"}

(* C21: once the stop request is set, no signal that has not started        *)
(* executing starts afterwards, including one waiting for its scheduled     *)
(* instant; trades in flight are not aborted.                               *)
C21_NoStartAfterStop ==
    [][config.paused =>
          \A i \in DOMAIN monitor :
             /\ NotStarted(monitor[i]) => monitor'[i].pc # "trading"
             /\ monitor[i].pc = "trading" =>
                   monitor'[i].pc \in {"trading", "done"}]_vars

(* a signal checked while the stop request was set is skipped *)
C21_CheckedWhilePaused ==
    [][\A i \in DOMAIN monitor :
          (config.paused /\ monitor[i].pc = "check"
              /\ monitor'[i].pc # "check") =>
             monitor'[i].pc = "skipped"]_vars

(***************************************************************************)
(* Properties of the signal time, checked under SpecParse.                 *)
(***************************************************************************)
Parsed ==
    {i \in DOMAIN calls :
        /\ calls[i].kind = "parse_standard_signal"
        /\ calls[i].pc = "returned"
        /\ calls[i].result.raised = "none"}

(* C22: the HH:MM of a standard signal is read as a time in UTC-3 and       *)
(* returned in the system timezone UTC+TIMEZONE_OFFSET: the returned hour   *)
(* is (HH + TIMEZONE_OFFSET + 3) mod 24 and the minute is unchanged.        *)
C22_ConvertedToSystemZone ==
    \A i \in Parsed :
        LET c == calls[i]
            t == c.result.time
        IN  /\ hour(t) = (c.hh + c.TIMEZONE_OFFSET + 3) % 24
            /\ minute(t) = c.mm
            /\ t.tz = c.TIMEZONE_OFFSET * 60
            /\ (utc(t) - 180) % 1440 = c.hh * 60 + c.mm

(* 12:00 becomes 16:00 for TIMEZONE_OFFSET = 1 *)
C22_Witness ==
    \E i \in Parsed :
        /\ calls[i].hh = 12
        /\ calls[i].mm = 0
        /\ calls[i].TIMEZONE_OFFSET = 1
        /\ hour(calls[i].result.time) = 16
        /\ minute(calls[i].result.time) = 0

(***************************************************************************)
(* Properties of the shared multiplier, checked under SpecTasks.           *)
(***************************************************************************)
(* the task has read the multiplier for a bucket whose post-join update     *)
(* is still to come                                                         *)
InFlight(t) == tasks[t].pc \in {"gather", "report", "update"}

(* the step reads the multiplier for a stake or writes it after a join *)
TouchesMultiplier(t) ==
    \/ tasks[t].pc = "loop" /\ tasks'[t].pc = "gather"
    \/ /\ tasks[t].pc = "update"
       /\ tasks'[t].pc = "loop"
       /\ USER_CONFIG.mode = "COLLECTIVE"

(* C23: between a bucket's read of the collective multiplier and the same   *)
(* bucket's post-join update no other bucket or scheduling task reads or    *)
(* writes it, even with several scheduling tasks active.                    *)
C23_NoConcurrentAccess ==
    [][\A a \in DOMAIN tasks : \A b \in DOMAIN tasks :
          (a # b /\ InFlight(a)) => ~TouchesMultiplier(b)]_vars

(* within one scheduling task the buckets follow one another *)
C23_OneBucketPerTask ==
    \A t \in DOMAIN tasks :
        InFlight(t) => tasks[t].ki <= tasks[t].buckets

(***************************************************************************)
(* Properties of the correlation ids, checked under SpecPlace.             *)
(***************************************************************************)
PendingDigital ==
    {i \in PlaceCalls :
        /\ Waiting(i)
        /\ calls[i].family = "digital"
        /\ calls[i].future.state = "pending"}

(* C24: two digital placements pending at the same time carry different     *)
(* correlation ids, so an answer carrying id c resolves the placement that  *)
(* submitted c and no pending placement is left without its slot.           *)
C24_DistinctIds ==
    /\ \A i \in PendingDigital : \A j \in PendingDigital :
          i # j => calls[i].request_id # calls[j].request_id
    /\ \A i \in PendingDigital :
          /\ calls[i].request_id \in DOMAIN message_handler.pending_digital_orders
          /\ message_handler.pending_digital_orders[calls[i].request_id] = i

(***************************************************************************)
(* Properties of the binary confirmation match, checked under SpecBinary.  *)
(***************************************************************************)
BinarySuccess ==
    {i \in PlaceCalls :
        /\ calls[i].family = "binary"
        /\ calls[i].pc = "returned"
        /\ calls[i].result.success}

(* the open event ev has what placement c submitted *)
SameOrder(c, ev) ==
    /\ ev.active_id = c.params.asset
    /\ ev.direction = Lower(c.params.direction)
    /\ ev.amount - c.params.amount < 2
    /\ c.params.amount - ev.amount < 2

InWindow(c, ev) == ev.created_at >= c.start_time - 5

OpenEvents == message_handler.recent_binary_opens

(* C25: a binary placement takes the first open event that matches what it  *)
(* submitted, whether or not another placement has taken it: two            *)
(* placements pending together with the same asset and direction and        *)
(* amounts within 0.01 can both return success with the same order id.      *)
C25_TakesFirstMatch ==
    [][\A i \in PlaceCalls :
          (Waiting(i) /\ calls[i].family = "binary"
              /\ calls'[i].pc = "returned" /\ calls'[i].result.success) =>
             \E k \in DOMAIN OpenEvents :
                /\ SameOrder(calls[i], OpenEvents[k])
                /\ InWindow(calls[i], OpenEvents[k])
                /\ calls'[i].result.order_id = OpenEvents[k].id
                /\ \A j \in 1..(k - 1) :
                      ~(SameOrder(calls[i], OpenEvents[j])
                          /\ InWindow(calls[i], OpenEvents[j]))]_vars

(* two placements that were pending together, with amounts half a cent      *)
(* apart, hold the same order id                                            *)
C25_Witness ==
    \E i \in BinarySuccess : \E j \in BinarySuccess :
        /\ i \in calls[j].overlaps
        /\ calls[i].params.amount # calls[j].params.amount
        /\ calls[i].result.order_id = calls[j].result.order_id

(* C26: a binary placement returns success with order id x only if the      *)
(* open event x has the submitted asset, the submitted direction, an        *)
(* amount within 0.01 of the stake and a creation time no earlier than      *)
(* 5 s before the submission; no other event is matched.                    *)
C26_MatchedEvent ==
    \A i \in BinarySuccess :
        \E k \in DOMAIN OpenEvents :
            /\ OpenEvents[k].id = calls[i].result.order_id
            /\ SameOrder(calls[i], OpenEvents[k])
            /\ InWindow(calls[i], OpenEvents[k])

(* an older event of the same order was passed over for the call's own *)
C26_Witness ==
    \E i \in BinarySuccess : \E k \in DOMAIN OpenEvents :
        /\ SameOrder(calls[i], OpenEvents[k])
        /\ ~InWindow(calls[i], OpenEvents[k])
        /\ OpenEvents[k].id # calls[i].result.order_id

(***************************************************************************)
(* Properties of the pending-order table, checked under SpecDigital.       *)
(***************************************************************************)
HoldsSlot(i) ==
    /\ calls[i].request_id \in DOMAIN message_handler.pending_digital_orders
    /\ message_handler.pending_digital_orders[calls[i].request_id] = i

(* C27: after a digital placement call has returned, on any path            *)
(* (confirmed, rejected, timed out, failed while sending), the              *)
(* pending-order table holds no slot of that call.                          *)
C27_NoSlotAfterReturn ==
    \A i \in PlaceCalls :
        (calls[i].family = "digital" /\ calls[i].pc = "returned") =>
           ~HoldsSlot(i)

(* the same for the calls whose request was sent *)
C27_NoSlotAfterSentReturn ==
    \A i \in PlaceCalls :
        (calls[i].family = "digital" /\ calls[i].pc = "returned"
            /\ calls[i].result.reason # "Unexpected error") =>
           ~HoldsSlot(i)

(***************************************************************************)
(* Properties of the binary pnl, checked under SpecBinaryPnl.              *)
(***************************************************************************)
BinaryClosed ==
    {i \in DOMAIN calls :
        calls[i].kind = "binary_pnl" /\ calls[i].pc = "returned"}

(* C28: get_binary_trade_outcome returns return amount - stake for a win,   *)
(* 0 for a tie and -stake for a loss, by the venue's tag when it is 'win',  *)
(* 'equal' or 'loose' and else by comparing return amount and stake; the    *)
(* sign of the pnl agrees with the classification.                          *)
C28_PnlAgrees ==
    \A i \in BinaryClosed :
        LET d == calls[i].order_data
            pnl == calls[i].result.pnl
            class == calls[i].class
        IN  /\ class = "win" => pnl = d.profit_amount - d.amount /\ pnl > 0
            /\ class = "equal" => pnl = 0
            /\ class = "loose" => pnl = 0 - d.amount /\ pnl < 0

(* without a tag and with a stake the sign of the pnl agrees with the       *)
(* classification                                                           *)
C28_UntaggedSignAgrees ==
    \A i \in BinaryClosed :
        LET d == calls[i].order_data
            pnl == calls[i].result.pnl
            class == calls[i].class
        IN  (d.win = "none" /\ d.amount > 0) =>
              /\ class = "win" => pnl > 0
              /\ class = "equal" => pnl = 0
              /\ class = "loose" => pnl < 0

(***************************************************************************)
(* Properties of the expiry quantization, checked under SpecExpiry.        *)
(***************************************************************************)
ExpiryReturned ==
    {i \in DOMAIN calls :
        calls[i].kind = "get_remaining_secs" /\ calls[i].pc = "returned"}

floor_minute(instant) == instant - (instant % MINUTE)

(* the expiry of the quantization rule for server time t and N minutes *)
QuantizedExpiry(t, N) ==
    IF floor_minute(t) + MINUTE - t >= min_time_needed
    THEN floor_minute(t) + N * MINUTE
    ELSE floor_minute(t) + (N + 1) * MINUTE

ExpiryAsClaimed(c) ==
    /\ c.expiry_ts % MINUTE = 0
    /\ c.expiry_ts = QuantizedExpiry(c.timestamp, c.expiry)
    /\ c.expiry_ts - c.timestamp >= (c.expiry - 1) * MINUTE + min_time_needed
    /\ c.expiry_ts - c.timestamp < c.expiry * MINUTE + min_time_needed

(* C29: for every server time t and expiry of N >= 1 minutes,               *)
(* get_expiry_timestamp returns the whole-minute boundary                   *)
(* E = floor_minute(t) + N minutes when the next boundary is at least 31 s  *)
(* away and floor_minute(t) + (N+1) minutes otherwise, so that              *)
(* 60(N-1) + 31 s <= E - t < 60N + 31 s.                                    *)
C29_QuantizedExpiry ==
    \A i \in ExpiryReturned : ExpiryAsClaimed(calls[i])

(* on a machine whose local zone has no transition the rule holds *)
C29_FixedZoneExpiry ==
    \A i \in ExpiryReturned :
        calls[i].zone.before = calls[i].zone.after =>
            ExpiryAsClaimed(calls[i])

(***************************************************************************)
(* Properties of a bucket's runs, checked under SpecBucket.                *)
(***************************************************************************)
Retrying(k) == runs[k].pc \in {"place", "outcome"} /\ runs[k].gale > 0

(* a signal that has not started, no thread free to start it *)
HeldBack(k) ==
    /\ runs[k].pc = "queued"
    /\ Cardinality(BusyThreads) = calls[1].max_workers

(* C30: the signals of a bucket are started together and progress           *)
(* independently; a signal's retries never delay the start of another       *)
(* signal's attempts: no signal is held back while another one retries.     *)
C30_RetriesDelayNoStart ==
    \A k, j \in DOMAIN runs : ~(HeldBack(k) /\ Retrying(j))

(* a bucket that fits the pool: no signal is ever held back *)
C30_FittingBucketNotHeldBack ==
    Len(runs) <= calls[1].max_workers =>
        \A k \in DOMAIN runs : ~HeldBack(k)

(* a signal has its result while another is still in its first attempt *)
C30_DoneBesideFirstAttempt ==
    \E k, j \in DOMAIN runs :
        /\ runs[k].pc = "done"
        /\ runs[j].pc = "outcome"
        /\ runs[j].gale = 0

(***************************************************************************)
(* Properties of the bucket loop, checked under Spec.                      *)
(***************************************************************************)
(* the bucket at hand has been fired and its iteration is not over *)
BucketFired == task.mode_at_fire # "none"

(* the task is in the wait or the verification of a bucket *)
WaitOrVerify == task.pc \in {"loop", "sleep_verify", "verify"}

NoneInFlight ==
    /\ \A k \in DOMAIN runs : runs[k].pc = "done"
    /\ ACTIVE_TRADES = <<>>

(* the step that leaves a fired bucket for the next one *)
C31_NextBucketStep ==
    (BucketFired /\ task'.ki # task.ki) =>
        /\ task.pc = "update"
        /\ task'.ki = task.ki + 1
        /\ NoneInFlight
        /\ Len(task.results) = Len(task.verified_signals)
        /\ sent # <<>> /\ IsSummary(sent[Len(sent)])
        /\ USER_CONFIG.mode = "COLLECTIVE" =>
              USER_CONFIG'.collective_multiplier =
                  IF task.batch_win THEN 1
                  ELSE USER_CONFIG.collective_multiplier * 2

(* C31: within one scheduling call the wait and verification of bucket i+1  *)
(* do not begin before every signal execution of bucket i has returned and  *)
(* bucket i's summary and multiplier update are done.                       *)
C31_BucketsInSequence ==
    /\ [][C31_NextBucketStep]_vars
    /\ [](WaitOrVerify => (~BucketFired /\ NoneInFlight))

(* the second bucket is being verified after the first one was fired *)
C31_Witness ==
    /\ task.pc = "verify"
    /\ task.ki = 2
    /\ task.placed # {}
    /\ runs = <<>>

(* the step that fires a bucket *)
C32_FireStep ==
    (task.pc = "fire" /\ task'.pc = "gather") =>
        LET stake == USER_CONFIG.amount * USER_CONFIG.collective_multiplier
        IN  /\ Len(runs') = Len(task.verified_signals)
            /\ task'.current_amount = stake
            /\ \A k \in DOMAIN runs' :
                  /\ runs'[k].amount = stake
                  /\ runs'[k].current_amount = stake
                  /\ runs'[k].gale = 0
                  /\ runs'[k].stakes = <<>>

(* from the end of a bucket to the firing of the next one only a mode       *)
(* command, which resets it, changes the multiplier                         *)
C32_CarriedStep ==
    (/\ task.pc \in {"loop", "sleep_verify", "verify", "sleep_fire", "fire"}
     /\ USER_CONFIG'.collective_multiplier # USER_CONFIG.collective_multiplier)
        => /\ USER_CONFIG'.collective_multiplier = 1
           /\ task' = task

DigitalAnswerArrives(m) ==
    /\ transport[m].family = "digital"
    /\ ~transport[m].answered
    /\ transport'[m].answered

(* the placement that sent m still waits for its future *)
StillPending(m) ==
    /\ Waiting(transport[m].call)
    /\ calls[transport[m].call].future.state = "pending"

(* C33: in the digital path the slot for a correlation id is registered     *)
(* before the request carrying that id is sent, so a confirmation that      *)
(* arrives after the send, while the placement waits, finds its slot.       *)
C33_ConfirmationFindsSlot ==
    [][\A m \in DOMAIN transport :
          (DigitalAnswerArrives(m) /\ StillPending(m)) =>
              LET pending == message_handler.pending_digital_orders
                  rid == transport[m].request_id
              IN  /\ rid \in DOMAIN pending
                  /\ pending[rid] = transport[m].call]_vars

(* the slot is there when the request leaves *)
C33_RegisteredAtSend ==
    [][Len(transport') > Len(transport) =>
          LET m == Len(transport')
              pending == message_handler'.pending_digital_orders
          IN  transport'[m].family = "digital" =>
                 /\ transport'[m].request_id \in DOMAIN pending
                 /\ pending[transport'[m].request_id] = transport'[m].call]_vars

(***************************************************************************)
(* Properties of the confirmation loop, checked under SpecConfirm.         *)
(***************************************************************************)
ConfirmReturned ==
    {i \in DOMAIN calls : calls[i].kind = "confirm" /\ calls[i].pc = "returned"}

(* the matching open events added to the list before the reading t *)
MatchingBefore(i, t) ==
    {k \in MatchingOpens(InSeconds(calls[i])) :
        message_handler.recent_binary_opens[k].added_at < t}

(* C34: if a matching open event is added to the recent-opens list at any   *)
(* time before the 10 s deadline the placement returns success, also when   *)
(* the event arrives during the last half-second wait and when another      *)
(* waiter clears the shared event in between.                               *)
C34_EventBeforeDeadlineSucceeds ==
    \A i \in ConfirmReturned :
        MatchingBefore(i, calls[i].end_time) # {} => calls[i].result.success

(* an event added before the last half second of the wait is found *)
C34_EventBeforeLastWaitSucceeds ==
    \A i \in ConfirmReturned :
        MatchingBefore(i, calls[i].end_time - WAIT_TICKS) # {} =>
            calls[i].result.success

(***************************************************************************)
(* Properties of a break-even outcome, checked under SpecRun.              *)
(***************************************************************************)
C35_BreakevenState ==
    \A k \in DOMAIN runs :
        LET r == runs[k] IN
        r.last.kind = "breakeven" =>
            /\ r.last.pl = 0
            /\ r.pc = "place" =>
                  /\ r.gale = Len(r.stakes)
                  /\ r.gale <= r.max_gales
                  /\ r.current_amount = 2 * Last(r.stakes)
            /\ r.pc = "done" =>
                  /\ Len(r.stakes) = r.max_gales + 1
                  /\ r.result = ExhaustedResult(r.amount, r.max_gales)
                  /\ r.result.message = "LOSS"
                  /\ ~r.result.success

(* C35: run_trade treats a break-even outcome (pnl = 0) as a loss: it        *)
(* multiplies the stake and makes the next attempt, and a signal whose       *)
(* attempts all end with pnl = 0 terminates as an exhausted loss.            *)
C35_BreakevenIsLoss ==
    /\ []C35_BreakevenState
    /\ [][\A k \in DOMAIN runs :
            (runs[k].pc = "outcome" /\ runs'[k].last.kind = "breakeven"
                /\ runs'[k] # runs[k])
                => /\ runs'[k].current_amount = 2 * runs[k].current_amount
                   /\ runs'[k].gale =
                         IF runs[k].gale < runs[k].max_gales
                         THEN runs[k].gale + 1 ELSE runs[k].gale
                   /\ runs'[k].pc = IF runs[k].gale < runs[k].max_gales
                                    THEN "place" ELSE "done"]_vars

(* the last of three attempts ended with pnl = 0 and the run is an          *)
(* exhausted loss                                                           *)
C35_Witness ==
    \E k \in DOMAIN runs :
        /\ runs[k].max_gales = 2
        /\ runs[k].last.kind = "breakeven"
        /\ runs[k].stakes = <<1, 2, 4>>
        /\ runs[k].pc = "done"
        /\ runs[k].result.message = "LOSS"

(* the scheduler reaches the bucket keys[ki] after its verification point, *)
(* an earlier bucket of the call having been executed before it            *)
ReachedLate ==
    /\ AtBucketHead
    /\ task.ki > 1
    /\ VerifyDelay(sched_time, now) <= 0

(* seconds since the verification point of the bucket keys[ki] *)
Lateness == now - (sched_time - VERIFY_LEAD_SECS)

(* C36 (as stated): a bucket reached late is never fired more than 300 s   *)
(* after its verification point.                                           *)
C36_NeverFiredOver300Late ==
    (task.pc = "gather" /\ task.ki > 1) =>
        task.fired_at - (sched_time - VERIFY_LEAD_SECS) <= BUCKET_STALE_SECS

(* C36 (amended): a bucket reached late is dropped as stale, unverified and *)
(* unplaced, exactly when its verification point is more than 300 s past   *)
(* at the moment the scheduler reaches it; otherwise verification starts   *)
(* at once, and when it is over the bucket is skipped if no signal passed, *)
(* fired without a sleep if the scheduled instant has come, and put to     *)
(* sleep until that instant if not. Staleness is not looked at again, so   *)
(* the firing is later than the 300 s by the time verification took.       *)
C36_LateHeadStep ==
    ReachedLate =>
        IF Lateness > BUCKET_STALE_SECS
        THEN DroppedStale /\ sched_time \in task'.stale_dropped
        ELSE /\ task'.pc = "verify"
             /\ task'.ki = task.ki
             /\ now' = now
             /\ sched_time \notin task'.stale_dropped

C36_VerifiedStep ==
    (task.pc = "verify" /\ task'.pc # "verify") =>
        task'.pc = IF task'.verified_signals = <<>> THEN "loop"
                   ELSE IF now' < sched_time THEN "sleep_fire"
                   ELSE "fire"

C36_StaleNeverFired ==
    \A i \in DOMAIN task.signals :
        task.signals[i].time \in task.stale_dropped =>
            task.signals[i].id \notin task.placed

C36_LateBucketFiredOrDropped ==
    /\ [][C36_LateHeadStep /\ C36_VerifiedStep]_vars
    /\ []C36_StaleNeverFired

(* a second bucket reached exactly 300 s after its verification point was  *)
(* verified and fired, a second later                                      *)
C36_Witness ==
    /\ task.pc = "gather"
    /\ task.ki > 1
    /\ task.stale_dropped = {}
    /\ task.fired_at - (sched_time - VERIFY_LEAD_SECS) > BUCKET_STALE_SECS

(* the wrappers between their append and their finally block *)
WrappersInFlight == {i \in DOMAIN calls : calls[i].pc = "running"}

Occurrences(list, x) == Cardinality({k \in DOMAIN list : list[k] = x})

(* C37: ACTIVE_TRADES holds exactly one entry per execution in flight: as  *)
(* many entries as wrappers running, each entry as often as wrappers run   *)
(* with it; a wrapper's start appends its entry and its end, by result or  *)
(* by exception, takes one such entry out; the status display shows one    *)
(* line per entry.                                                         *)
C37_EntriesAreWrappersInFlight ==
    /\ Len(ACTIVE_TRADES) = Cardinality(WrappersInFlight)
    /\ \A i \in WrappersInFlight :
          Occurrences(ACTIVE_TRADES, calls[i].trade_entry) =
              Cardinality({j \in WrappersInFlight :
                              calls[j].trade_entry = calls[i].trade_entry})

C37_StartAddsEndRemoves ==
    \A i \in DOMAIN calls :
        /\ (calls[i].pc = "new" /\ calls'[i].pc = "running") =>
              ACTIVE_TRADES' = Append(ACTIVE_TRADES, calls'[i].trade_entry)
        /\ (calls[i].pc = "running" /\ calls'[i].pc = "ended") =>
              /\ Len(ACTIVE_TRADES') = Len(ACTIVE_TRADES) - 1
              /\ Occurrences(ACTIVE_TRADES', calls[i].trade_entry) =
                     Occurrences(ACTIVE_TRADES, calls[i].trade_entry) - 1

C37_StatusShowsWrappersInFlight ==
    (calls' = calls /\ now' = now /\ sent' # sent) =>
        Len(sent') = Cardinality(WrappersInFlight)

C37_OneEntryPerExecution ==
    /\ []C37_EntriesAreWrappersInFlight
    /\ [][C37_StartAddsEndRemoves /\ C37_StatusShowsWrappersInFlight]_vars

(* two executions run with equal entries beside one that ended with an     *)
(* exception and whose entry was equal to theirs                           *)
C37_Witness ==
    /\ \E i \in DOMAIN calls :
          /\ calls[i].pc = "ended"
          /\ calls[i].outcome = "exception"
          /\ \E j, k \in WrappersInFlight :
                /\ j # k
                /\ calls[j].trade_entry = calls[i].trade_entry
                /\ calls[k].trade_entry = calls[i].trade_entry
    /\ Len(ACTIVE_TRADES) = 2

(* signals of the list that are equal to s *)
Copies(list, s) == Cardinality({k \in DOMAIN list : list[k] = s})

RECURSIVE CopiesInTasks(_, _)
CopiesInTasks(k, s) ==
    IF k = 0 THEN 0
    ELSE Copies(tasks[k].signals, s) + CopiesInTasks(k - 1, s)

TimerPending ==
    /\ listener.BATCH_TIMER # 0
    /\ listener.timers[listener.BATCH_TIMER].state = "sleeping"

(* the pending timer was cancelled and the new BATCH_TIMER sleeps 5 s *)
TimerRestarted ==
    /\ listener'.timers[listener.BATCH_TIMER].state = "cancelled"
    /\ listener'.BATCH_TIMER = Len(listener.timers) + 1
    /\ listener'.timers[listener'.BATCH_TIMER] =
          [state |-> "sleeping", wake_at |-> now + DEBOUNCE_SECS]
    /\ \A k \in DOMAIN listener'.timers :
          listener'.timers[k].state = "sleeping" => k = listener'.BATCH_TIMER

(* C38 (as stated): any message that reaches the listener while a flush    *)
(* timer is pending cancels the timer and starts a new 5 s one.            *)
C38_AnyMessageRestarts ==
    [][(listener'.events = listener.events + 1 /\ TimerPending)
          => TimerRestarted]_vars

(* C38 (amended): every signal appended to the buffer is in the buffer or  *)
(* in exactly one process_signals_task call created by a flush, once; a    *)
(* message that appends signals while a flush timer is pending cancels the *)
(* timer and starts a new 5 s one, a message with no signal or from a      *)
(* filtered channel leaves the timer alone; once messages stop arriving    *)
(* the buffer is flushed and stays empty.                                  *)
C38_ExactlyOnce ==
    /\ \A s \in listener.appended :
          Copies(listener.BATCH_BUFFER, s) + CopiesInTasks(Len(tasks), s) = 1
    /\ \A k \in DOMAIN listener.BATCH_BUFFER :
          listener.BATCH_BUFFER[k] \in listener.appended
    /\ listener.BATCH_BUFFER # <<>> => TimerPending

C38_DebounceStep ==
    (listener'.events = listener.events + 1 /\ TimerPending) =>
        IF listener'.appended # listener.appended
        THEN TimerRestarted
        ELSE listener'.timers = listener.timers
                /\ listener'.BATCH_TIMER = listener.BATCH_TIMER

C38_Flushed ==
    /\ listener.BATCH_BUFFER = <<>>
    /\ \A s \in listener.appended : CopiesInTasks(Len(tasks), s) = 1

C38_BufferedOnceAndFlushed ==
    /\ []C38_ExactlyOnce
    /\ [][C38_DebounceStep]_vars
    /\ <>[]C38_Flushed

(* a flush handed over the signals of two messages, the second of which    *)
(* had cancelled the timer of the first                                    *)
C38_Witness ==
    /\ listener.BATCH_BUFFER = <<>>
    /\ \E k \in DOMAIN listener.timers : listener.timers[k].state = "cancelled"
    /\ \E k \in DOMAIN tasks :
          /\ tasks[k].origin = "flush"
          /\ \E i, j \in DOMAIN tasks[k].signals :
                tasks[k].signals[i].msg # tasks[k].signals[j].msg

(* the signals in the buffer and in the process_signals_task calls *)
Accepted(l, created) ==
    {l.BATCH_BUFFER[k] : k \in DOMAIN l.BATCH_BUFFER} \cup
    UNION {{created[k].signals[j] : j \in DOMAIN created[k].signals} :
              k \in DOMAIN created}

(* a signal enters the buffer, or a process_signals_task call without      *)
(* having been buffered                                                    *)
NewlyAccepted == Accepted(listener', tasks') \ Accepted(listener, tasks)

(* C39: no signal is accepted for scheduling from a channel that the user  *)
(* has toggled off, whatever toggles came before.                          *)
C39_OffNeverScheduled ==
    [][\A s \in NewlyAccepted : s.chat \notin listener.toggled_off]_vars

==========================================================================
